---- MODULE Spec2Model ----
(***************************************************************************)
(* Model of the CSV profile importer of the admin controller                *)
(* (src/src/controllers/adminController.js, uploadCSV, lines 423-614).      *)
(*                                                                          *)
(* The relational store is the five tables uploadCSV reads and writes.      *)
(* Every `await pool.query(...)` is one action, taken at the instant the    *)
(* store executes the statement; the synchronous code that follows the      *)
(* await up to the next await is the local part of the same or the next     *)
(* action.  Any store call may fail (QueryFails): the rejection is caught   *)
(* by the row's try/catch.  Spec runs the imports one after another;        *)
(* ConcSpec lets a second import overlap the first.                         *)
(*                                                                          *)
(* AdminSpec is the category, subcategory and profile CRUD handlers of the  *)
(* same controller (createCategory, getCategories, deleteCategory,          *)
(* createSubcategory, createProfile, getAllProfiles, deleteProfile), one    *)
(* request after another, on the same store plus the tables subcategories   *)
(* and profile_subcategories that these handlers use.  The schema is not    *)
(* part of the sources: the tables accept every row, ids are serial, and    *)
(* profiles.created_at orders the profiles as their inserts were made.      *)
(*                                                                          *)
(* TagSpec adds forceTagClassification between the imports (the service it  *)
(* calls is not part of the sources; its effect on table tags is taken from *)
(* the specification).  RaceSpec runs deleteCategory while an import is at  *)
(* work.  ProfileSpec serves imports, updateProfile and deleteProfile one   *)
(* request after another.                                                   *)
(*                                                                          *)
(* Text values are sequences of one-character strings, so that LOWER(),     *)
(* split(','), trim() and the truthiness tests of the code are computed on  *)
(* the characters.  A CSV row is a function whose domain is the set of the  *)
(* columns the parser delivered for that row.                               *)
(*                                                                          *)
(* Environment: the temporary file of a request is written by the upload    *)
(* middleware before uploadCSV runs and is touched by nothing else, so      *)
(* fs.unlinkSync on it does not throw; res.json does not throw.  Under      *)
(* these two assumptions the catch blocks at lines 584-591 and 606-613      *)
(* have no statement that can reach them and are not modelled.              *)
(***************************************************************************)
EXTENDS Integers, Sequences, FiniteSets, TLC

\* ---------------------------------------------------------------- bounds

\* Rows the parser delivers, summed over all requests of a behaviour.
MaxRows == 2

\* Store calls that fail, summed over all requests of a behaviour.
MaxFails == 2

\* ---------------------------------------------------------------- text

\* SQL NULL / JS null for an id column.
NoId == 0

\* SQL NULL / JS null for a text column: a value no text over the alphabet equals.
Null == <<"NULL">>

English == <<"E", "n", "g", "l", "i", "s", "h">>

Published == <<"p", "u", "b", "l", "i", "s", "h", "e", "d">>

Contextual == <<"c", "o", "n", "t", "e", "x", "t", "u", "a", "l">>

\* SQL LOWER() on one character of the alphabet the sample rows use.
LowerChar(c) ==
    CASE c = "M" -> "m"
      [] c = "P" -> "p"
      [] c = "A" -> "a"
      [] OTHER -> c

\* SQL LOWER(text).
Lower(s) == [k \in DOMAIN s |-> LowerChar(s[k])]

\* The comparison LOWER(name) = LOWER($1) of the lookups.
SameName(a, b) == Lower(a) = Lower(b)

RECURSIVE SplitAcc(_, _, _)
SplitAcc(s, cur, acc) ==
    IF s = <<>> THEN Append(acc, cur)
    ELSE IF Head(s) = "," THEN SplitAcc(Tail(s), <<>>, Append(acc, cur))
    ELSE SplitAcc(Tail(s), Append(cur, Head(s)), acc)

\* String.prototype.split(','): the pieces between the commas, empty ones kept.
Split(s) == SplitAcc(s, <<>>, <<>>)

RECURSIVE TrimLeft(_)
TrimLeft(s) ==
    IF s # <<>> /\ Head(s) = " " THEN TrimLeft(Tail(s)) ELSE s

RECURSIVE TrimRight(_)
TrimRight(s) ==
    IF s # <<>> /\ s[Len(s)] = " " THEN TrimRight(SubSeq(s, 1, Len(s) - 1)) ELSE s

\* String.prototype.trim().
Trim(s) == TrimRight(TrimLeft(s))

\* JS truthiness of row[col]: the column is present and its text is not empty.
Truthy(row, col) == col \in DOMAIN row /\ row[col] # <<>>

\* row[col] || null
OrNull(row, col) == IF Truthy(row, col) THEN row[col] ELSE Null

\* row[col] || dflt
OrDefaultWhenAbsent(row, col, dflt) == IF col \in DOMAIN row THEN row[col] ELSE dflt

OrDefault(row, col, dflt) == IF Truthy(row, col) THEN row[col] ELSE dflt

\* Validation of the required fields: !row.name || !row.category.
InvalidNameOnly(row) == ~Truthy(row, "name")

Invalid(row) == ~Truthy(row, "name") \/ ~Truthy(row, "category")

MissingMsg == "Missing required fields (name, category)"

socialPlatforms ==
    <<"youtube", "twitter", "linkedin", "instagram", "website", "tiktok", "facebook">>

\* The platforms of the loop at lines 525-532 whose insert is issued, in order.
SocialTodoAll(row) == socialPlatforms

SocialTodo(row) == SelectSeq(socialPlatforms, LAMBDA pf : Truthy(row, pf))

\* row.tags.split(',').map(t => t.trim()).filter(t => t), or no names at all
\* when row.tags is falsy.
TagNames(row) ==
    IF Truthy(row, "tags")
    THEN LET pieces == Split(row["tags"])
             trimmed == [k \in DOMAIN pieces |-> Trim(pieces[k])]
         IN SelectSeq(trimmed, LAMBDA t : t # <<>>)
    ELSE <<>>

\* ---------------------------------------------------------------- inputs

\* The rows the parser may deliver.
RowSet ==
    { \* valid; website and youtube only; tags with blanks, an empty item
      \* and a duplicate up to case
      [name |-> <<"a">>, category |-> <<"M">>,
       website |-> <<"w">>, youtube |-> <<"y">>,
       tags |-> <<" ", "M", ",", " ", "m", " ", ",", ",", "P">>],
      \* valid; category equal to "M" up to case, a subcategory,
      \* an empty platform column and an explicit language
      [name |-> <<"b">>, category |-> <<"m">>, subcategory |-> <<"P">>,
       twitter |-> <<>>, language |-> <<"f">>, tags |-> <<"p">>],
      \* valid; the name of the subcategory above as a category, an empty
      \* status, an empty and a filled optional field
      [name |-> <<"c">>, category |-> <<"P">>, subcategory |-> <<"p">>, status |-> <<>>,
       notes |-> <<>>, location |-> <<"l">>],
      \* invalid: no name column
      [category |-> <<"M">>, youtube |-> <<"y">>, tags |-> <<"M">>],
      \* invalid: empty category
      [name |-> <<"d">>, category |-> <<>>, subcategory |-> <<"P">>] }

\* The messages a failing store call may carry (rowError.message).
ErrMsgs == {"connection terminated"}

\* The slots of the requests in flight.
Procs == {"p1", "p2"}

FirstSlot == "p1"

\* ---------------------------------------------------------------- state

VARIABLES
    categories,     \* table categories: set of [id, name, slug, parent_id]
    profiles,       \* table profiles: set of rows
    social_links,   \* table social_links: sequence of [profile_id, platform, url]
    tags,           \* table tags: set of [id, name, type]
    profile_tags,   \* table profile_tags: sequence of [profile_id, tag_id]
    nextId,         \* the id generators of the tables
    files,          \* temporary storage: the requests whose upload file exists
    pc,             \* where each request's handler stands
    req,            \* req.file of each request: [file |-> BOOLEAN]
    stream,         \* the csv() stream of each request: none, open, ended, errored
    results,        \* const results = []
    errors,         \* const errors = []
    successCount,
    errorCount,
    i,              \* the loop variable of the row loop
    categoryId,
    subcategoryId,
    profileId,
    todo,           \* the platforms of the social loop not yet reached
    tagNames,
    tagIdx,         \* position of the tag loop in tagNames, from 1
    tagId,
    catsBefore,     \* history: table categories when the current row began
    responses,      \* the responses sent on res, in order
    snap,           \* history: store and temporary storage when the request arrived
    calls,          \* history: store calls the request has issued
    failLog,        \* history: store calls of the request that failed, [row, msg]
    rowsRead,       \* history: rows delivered by the parser, all requests
    fails,          \* history: store calls that failed, all requests
    subcategories,  \* table subcategories: set of [id, name, category_id, slug]
    profile_subcategories,  \* table: sequence of [profile_id, subcategory_id]
    apc,            \* where the handler of the admin CRUD request stands
    areq,           \* the admin CRUD request: its handler, req.body, req.params, req.query
    aloc,           \* the locals of that handler
    aresp,          \* the responses sent on its res, in order
    okIds,          \* history: ids a create handler answered 200 for, per table
    goneIds         \* history: ids a delete handler answered 200 for, per table

storeVars == <<categories, profiles, social_links, tags, profile_tags, nextId>>

rowVars == <<categoryId, subcategoryId, profileId, todo, tagNames, tagIdx, tagId, catsBefore>>

countVars == <<errors, successCount, errorCount, i>>

histVars == <<snap, calls, failLog, rowsRead, fails>>

adminVars == <<subcategories, profile_subcategories, apc, areq, aloc, aresp, okIds, goneIds>>

vars == <<storeVars, files, pc, req, stream, results, countVars, rowVars, responses, histVars,
          adminVars>>

\* The pc values at which a store call is pending.
StorePcs ==
    {"catSelect", "catInsert", "subSelect", "subInsert", "profileInsert",
     "socialInsert", "tagSelect", "tagInsert", "tagLink"}

\* The pc values of the 'end' handler, between unlinkSync and res.json.
ProcessingPcs == StorePcs \cup {"loop", "rowOk"}

\* JS property access used as a query parameter: undefined is sent as NULL.
Col(row, col) == IF col \in DOMAIN row THEN row[col] ELSE Null

\* const row = results[i]
Row(p) == results[p][i[p] + 1]

\* No admin CRUD request is being served.
NoRequest == [op |-> "none"]

NoLocals == [profileId |-> NoId, rest |-> <<>>, rows |-> <<>>]

EmptySnap ==
    [categories |-> {}, profiles |-> {}, social_links |-> <<>>, tags |-> {},
     profile_tags |-> <<>>, files |-> {}]

StoreSnap ==
    [categories |-> categories, profiles |-> profiles, social_links |-> social_links,
     tags |-> tags, profile_tags |-> profile_tags, files |-> files]

Init ==
    /\ categories = {}
    /\ profiles = {}
    /\ social_links = <<>>
    /\ tags = {}
    /\ profile_tags = <<>>
    /\ nextId = [categories |-> 1, profiles |-> 1, tags |-> 1, subcategories |-> 1]
    /\ files = {}
    /\ pc = [p \in Procs |-> "idle"]
    /\ req = [p \in Procs |-> [file |-> FALSE]]
    /\ stream = [p \in Procs |-> "none"]
    /\ results = [p \in Procs |-> <<>>]
    /\ errors = [p \in Procs |-> <<>>]
    /\ successCount = [p \in Procs |-> 0]
    /\ errorCount = [p \in Procs |-> 0]
    /\ i = [p \in Procs |-> 0]
    /\ categoryId = [p \in Procs |-> NoId]
    /\ subcategoryId = [p \in Procs |-> NoId]
    /\ profileId = [p \in Procs |-> NoId]
    /\ todo = [p \in Procs |-> <<>>]
    /\ tagNames = [p \in Procs |-> <<>>]
    /\ tagIdx = [p \in Procs |-> 1]
    /\ tagId = [p \in Procs |-> NoId]
    /\ catsBefore = [p \in Procs |-> {}]
    /\ responses = [p \in Procs |-> <<>>]
    /\ snap = [p \in Procs |-> EmptySnap]
    /\ calls = [p \in Procs |-> 0]
    /\ failLog = [p \in Procs |-> <<>>]
    /\ rowsRead = 0
    /\ fails = 0
    /\ subcategories = {}
    /\ profile_subcategories = <<>>
    /\ apc = "idle"
    /\ areq = NoRequest
    /\ aloc = NoLocals
    /\ aresp = <<>>
    /\ okIds = [categories |-> {}, subcategories |-> {}, profiles |-> {}]
    /\ goneIds = [categories |-> {}, subcategories |-> {}, profiles |-> {}]

\* ---------------------------------------------------------------- request

\* A request reaches uploadCSV; with a file attached, the upload middleware
\* has stored it in temporary storage.  Imports run one after another: a
\* request arrives when no other is in flight, and takes the first slot (a
\* second slot is needed only by a request that overlaps another).
Arrive(p, hasFile) ==
    /\ \A q \in Procs : pc[q] = "idle"
    /\ p = FirstSlot
    /\ pc' = [pc EXCEPT ![p] = "received"]
    /\ req' = [req EXCEPT ![p] = [file |-> hasFile]]
    /\ files' = IF hasFile THEN files \cup {p} ELSE files
    /\ snap' = [snap EXCEPT ![p] = [StoreSnap EXCEPT !.files = files']]
    /\ UNCHANGED <<storeVars, stream, results, countVars, rowVars, responses,
                   calls, failLog, rowsRead, fails,
                   adminVars>>

\* if (!req.file) return res.status(400).json(...)
NoFileFallsThrough(p) ==
    /\ pc[p] = "received"
    /\ ~req[p].file
    /\ responses' = [responses EXCEPT ![p] =
           Append(@, [status |-> 400, success |-> FALSE,
                      message |-> "No CSV file uploaded"])]
    /\ stream' = [stream EXCEPT ![p] = "open"]
    /\ pc' = [pc EXCEPT ![p] = "parsing"]
    /\ UNCHANGED <<storeVars, files, req, results, countVars, rowVars, histVars, adminVars>>

NoFile(p) ==
    /\ pc[p] = "received"
    /\ ~req[p].file
    /\ responses' = [responses EXCEPT ![p] =
           Append(@, [status |-> 400, success |-> FALSE,
                      message |-> "No CSV file uploaded"])]
    /\ pc' = [pc EXCEPT ![p] = "done"]
    /\ UNCHANGED <<storeVars, files, req, stream, results, countVars, rowVars, histVars, adminVars>>

\* fs.createReadStream(filePath).pipe(csv()) with its three listeners.
BeginParse(p) ==
    /\ pc[p] = "received"
    /\ req[p].file
    /\ results' = [results EXCEPT ![p] = <<>>]
    /\ errors' = [errors EXCEPT ![p] = <<>>]
    /\ stream' = [stream EXCEPT ![p] = "open"]
    /\ pc' = [pc EXCEPT ![p] = "parsing"]
    /\ UNCHANGED <<storeVars, files, req, successCount, errorCount, i, rowVars,
                   responses, histVars,
                   adminVars>>

\* .on('data', (row) => results.push(row))
OnData(p, row) ==
    /\ pc[p] = "parsing"
    /\ rowsRead < MaxRows
    /\ results' = [results EXCEPT ![p] = Append(@, row)]
    /\ rowsRead' = rowsRead + 1
    /\ UNCHANGED <<storeVars, files, pc, req, stream, countVars, rowVars, responses,
                   snap, calls, failLog, fails,
                   adminVars>>

\* .on('error', ...): remove the file if it exists, answer 500.  The errored
\* stream emits nothing more.
OnErrorThenEnd(p, msg) ==
    /\ pc[p] = "parsing"
    /\ stream' = [stream EXCEPT ![p] = "errored"]
    /\ files' = IF p \in files THEN files \ {p} ELSE files
    /\ responses' = [responses EXCEPT ![p] =
           Append(@, [status |-> 500, success |-> FALSE,
                      message |-> "Error parsing CSV file", error |-> msg])]
    /\ pc' = [pc EXCEPT ![p] = "loop"]
    /\ UNCHANGED <<storeVars, req, results, countVars, rowVars, histVars, adminVars>>

OnError(p, msg) ==
    /\ pc[p] = "parsing"
    /\ stream' = [stream EXCEPT ![p] = "errored"]
    /\ files' = IF p \in files THEN files \ {p} ELSE files
    /\ responses' = [responses EXCEPT ![p] =
           Append(@, [status |-> 500, success |-> FALSE,
                      message |-> "Error parsing CSV file", error |-> msg])]
    /\ pc' = [pc EXCEPT ![p] = "done"]
    /\ UNCHANGED <<storeVars, req, results, countVars, rowVars, histVars, adminVars>>

\* .on('end', ...): fs.unlinkSync(filePath), the counters, entry of the row loop.
OnEndKeepFile(p) ==
    /\ pc[p] = "parsing"
    /\ files' = files
    /\ successCount' = [successCount EXCEPT ![p] = 0]
    /\ errorCount' = [errorCount EXCEPT ![p] = 0]
    /\ i' = [i EXCEPT ![p] = 0]
    /\ pc' = [pc EXCEPT ![p] = "loop"]
    /\ stream' = [stream EXCEPT ![p] = "ended"]
    /\ UNCHANGED <<storeVars, req, results, errors, rowVars, responses, histVars, adminVars>>

OnEnd(p) ==
    /\ pc[p] = "parsing"
    /\ files' = files \ {p}
    /\ successCount' = [successCount EXCEPT ![p] = 0]
    /\ errorCount' = [errorCount EXCEPT ![p] = 0]
    /\ i' = [i EXCEPT ![p] = 0]
    /\ pc' = [pc EXCEPT ![p] = "loop"]
    /\ stream' = [stream EXCEPT ![p] = "ended"]
    /\ UNCHANGED <<storeVars, req, results, errors, rowVars, responses, histVars, adminVars>>

\* ---------------------------------------------------------------- row loop

\* Leaving the body of the row loop: i++, and the row's let/const go out of scope.
NextRow(p) ==
    /\ i' = [i EXCEPT ![p] = @ + 1]
    /\ categoryId' = [categoryId EXCEPT ![p] = NoId]
    /\ subcategoryId' = [subcategoryId EXCEPT ![p] = NoId]
    /\ profileId' = [profileId EXCEPT ![p] = NoId]
    /\ todo' = [todo EXCEPT ![p] = <<>>]
    /\ tagNames' = [tagNames EXCEPT ![p] = <<>>]
    /\ tagIdx' = [tagIdx EXCEPT ![p] = 1]
    /\ tagId' = [tagId EXCEPT ![p] = NoId]
    /\ catsBefore' = [catsBefore EXCEPT ![p] = {}]

\* One more store call issued by request p.
Issued(p) == calls' = [calls EXCEPT ![p] = @ + 1]

\* if (!row.name || !row.category) { errors.push(...); errorCount++; continue; }
\* The rejection of a row that pushes its entry and leaves errorCount alone.
RejectRowUncounted(p) ==
    /\ pc[p] = "loop"
    /\ i[p] < Len(results[p])
    /\ Invalid(Row(p))
    /\ errors' = [errors EXCEPT ![p] = Append(@, [row |-> i[p] + 2, error |-> MissingMsg])]
    /\ NextRow(p)
    /\ UNCHANGED <<storeVars, files, pc, req, stream, results, successCount, errorCount,
                   responses, histVars, adminVars>>


RejectRowOffByOne(p) ==
    /\ pc[p] = "loop"
    /\ i[p] < Len(results[p])
    /\ Invalid(Row(p))
    /\ errors' = [errors EXCEPT ![p] = Append(@, [row |-> i[p] + 1, error |-> MissingMsg])]
    /\ errorCount' = [errorCount EXCEPT ![p] = @ + 1]
    /\ NextRow(p)
    /\ UNCHANGED <<storeVars, files, pc, req, stream, results, successCount, responses, histVars,
                   adminVars>>

RejectRow(p) ==
    /\ pc[p] = "loop"
    /\ i[p] < Len(results[p])
    /\ Invalid(Row(p))
    /\ errors' = [errors EXCEPT ![p] = Append(@, [row |-> i[p] + 2, error |-> MissingMsg])]
    /\ errorCount' = [errorCount EXCEPT ![p] = @ + 1]
    /\ NextRow(p)
    /\ UNCHANGED <<storeVars, files, pc, req, stream, results, successCount, responses, histVars,
                   adminVars>>

\* The row passes the validation; the category lookup is issued.
\* The row's lookup sent and not awaited: the loop moves on to the next row
\* while the call is pending.
StartRowNoAwait(p) ==
    /\ pc[p] = "loop"
    /\ i[p] < Len(results[p])
    /\ ~Invalid(Row(p))
    /\ pc' = [pc EXCEPT ![p] = "catSelect"]
    /\ catsBefore' = [catsBefore EXCEPT ![p] = categories]
    /\ i' = [i EXCEPT ![p] = @ + 1]
    /\ UNCHANGED <<storeVars, files, req, stream, results, errors, successCount, errorCount,
                   categoryId, subcategoryId, profileId, todo, tagNames, tagIdx, tagId,
                   responses, histVars,
                   adminVars>>


StartRow(p) ==
    /\ pc[p] = "loop"
    /\ i[p] < Len(results[p])
    /\ ~Invalid(Row(p))
    /\ pc' = [pc EXCEPT ![p] = "catSelect"]
    /\ catsBefore' = [catsBefore EXCEPT ![p] = categories]
    /\ UNCHANGED <<storeVars, files, req, stream, results, countVars, categoryId,
                   subcategoryId, profileId, todo, tagNames, tagIdx, tagId,
                   responses, histVars,
                   adminVars>>

\* SELECT id FROM categories WHERE LOWER(name) = LOWER($1)
CatMatchesExact(name) == {c \in categories : c.name = name}

CatMatches(name) == {c \in categories : SameName(c.name, name)}

\* SELECT id FROM categories WHERE LOWER(name) = LOWER($1) AND parent_id = $2
SubMatchesAnyParent(name, parent) == {c \in categories : SameName(c.name, name)}

SubMatches(name, parent) ==
    {c \in categories : SameName(c.name, name) /\ c.parent_id = parent}

\* SELECT id FROM tags WHERE LOWER(name) = LOWER($1)
TagMatchesExact(name) == {g \in tags : g.name = name}

TagMatches(name) == {g \in tags : SameName(g.name, name)}

\* The statement after the category is resolved.
AfterCategory(row) == IF Truthy(row, "subcategory") THEN "subSelect" ELSE "profileInsert"

\* The statement after the social loop.
AfterSocial(row) == IF TagNames(row) = <<>> THEN "rowOk" ELSE "tagSelect"

\* Lines 465-471 and 478-480: the lookup; rows[0] of a result in no stated order.
CategorySelect(p) ==
    /\ pc[p] = "catSelect"
    /\ Issued(p)
    /\ LET m == CatMatches(Col(Row(p), "category")) IN
         IF m = {}
         THEN /\ pc' = [pc EXCEPT ![p] = "catInsert"]
              /\ UNCHANGED categoryId
         ELSE \E c \in m :
                /\ categoryId' = [categoryId EXCEPT ![p] = c.id]
                /\ pc' = [pc EXCEPT ![p] = AfterCategory(Row(p))]
    /\ UNCHANGED <<storeVars, files, req, stream, results, countVars, catsBefore, subcategoryId, profileId,
                   todo, tagNames, tagIdx, tagId, responses, snap, failLog, rowsRead, fails,
                   adminVars>>

\* Lines 473-477: INSERT INTO categories (name) VALUES ($1) RETURNING id
\* INSERT ... WHERE NOT EXISTS: the insert a re-check of the lookup would guard.
CategoryInsertUnlessPresent(p) ==
    /\ pc[p] = "catInsert"
    /\ Issued(p)
    /\ LET m == CatMatches(Col(Row(p), "category")) IN
         IF m = {}
         THEN /\ categories' = categories \cup
                     {[id |-> nextId.categories, name |-> Col(Row(p), "category"),
                       slug |-> Null, parent_id |-> NoId]}
              /\ nextId' = [nextId EXCEPT !.categories = @ + 1]
              /\ categoryId' = [categoryId EXCEPT ![p] = nextId.categories]
         ELSE \E c \in m :
                /\ categoryId' = [categoryId EXCEPT ![p] = c.id]
                /\ UNCHANGED <<categories, nextId>>
    /\ pc' = [pc EXCEPT ![p] = AfterCategory(Row(p))]
    /\ UNCHANGED <<profiles, social_links, tags, profile_tags, files, req, stream, results,
                   countVars, catsBefore, subcategoryId, profileId, todo, tagNames, tagIdx, tagId,
                   responses, snap, failLog, rowsRead, fails,
                   adminVars>>


CategoryInsert(p) ==
    /\ pc[p] = "catInsert"
    /\ Issued(p)
    /\ categories' = categories \cup
           {[id |-> nextId.categories, name |-> Col(Row(p), "category"),
             slug |-> Null, parent_id |-> NoId]}
    /\ nextId' = [nextId EXCEPT !.categories = @ + 1]
    /\ categoryId' = [categoryId EXCEPT ![p] = nextId.categories]
    /\ pc' = [pc EXCEPT ![p] = AfterCategory(Row(p))]
    /\ UNCHANGED <<profiles, social_links, tags, profile_tags, files, req, stream, results,
                   countVars, catsBefore, subcategoryId, profileId, todo, tagNames, tagIdx, tagId,
                   responses, snap, failLog, rowsRead, fails,
                   adminVars>>

\* Lines 485-490 and 496-498.
SubcategorySelect(p) ==
    /\ pc[p] = "subSelect"
    /\ Issued(p)
    /\ LET m == SubMatches(Col(Row(p), "subcategory"), categoryId[p]) IN
         IF m = {}
         THEN /\ pc' = [pc EXCEPT ![p] = "subInsert"]
              /\ UNCHANGED subcategoryId
         ELSE \E c \in m :
                /\ subcategoryId' = [subcategoryId EXCEPT ![p] = c.id]
                /\ pc' = [pc EXCEPT ![p] = "profileInsert"]
    /\ UNCHANGED <<storeVars, files, req, stream, results, countVars, catsBefore, categoryId, profileId,
                   todo, tagNames, tagIdx, tagId, responses, snap, failLog, rowsRead, fails,
                   adminVars>>

\* The insert of lines 491-495 without its parent_id.
SubcategoryInsertTopLevel(p) ==
    /\ pc[p] = "subInsert"
    /\ Issued(p)
    /\ categories' = categories \cup
           {[id |-> nextId.categories, name |-> Col(Row(p), "subcategory"),
             slug |-> Null, parent_id |-> NoId]}
    /\ nextId' = [nextId EXCEPT !.categories = @ + 1]
    /\ subcategoryId' = [subcategoryId EXCEPT ![p] = nextId.categories]
    /\ pc' = [pc EXCEPT ![p] = "profileInsert"]
    /\ UNCHANGED <<profiles, social_links, tags, profile_tags, files, req, stream, results,
                   countVars, catsBefore, categoryId, profileId, todo, tagNames, tagIdx, tagId,
                   responses, snap, failLog, rowsRead, fails,
                   adminVars>>


\* Lines 491-495: INSERT INTO categories (name, parent_id) VALUES ($1, $2) RETURNING id
SubcategoryInsert(p) ==
    /\ pc[p] = "subInsert"
    /\ Issued(p)
    /\ categories' = categories \cup
           {[id |-> nextId.categories, name |-> Col(Row(p), "subcategory"),
             slug |-> Null, parent_id |-> categoryId[p]]}
    /\ nextId' = [nextId EXCEPT !.categories = @ + 1]
    /\ subcategoryId' = [subcategoryId EXCEPT ![p] = nextId.categories]
    /\ pc' = [pc EXCEPT ![p] = "profileInsert"]
    /\ UNCHANGED <<profiles, social_links, tags, profile_tags, files, req, stream, results,
                   countVars, catsBefore, categoryId, profileId, todo, tagNames, tagIdx, tagId,
                   responses, snap, failLog, rowsRead, fails,
                   adminVars>>

\* The row of table profiles that lines 502-519 insert.
ProfileRow(id, row, catId, subId) ==
    [id |-> id,
     name |-> Col(row, "name"),
     category_id |-> catId,
     subcategory_id |-> subId,
     image_url |-> OrNull(row, "image_url"),
     insight |-> OrNull(row, "insight"),
     notes |-> OrNull(row, "notes"),
     notes_url |-> OrNull(row, "notes_url"),
     location |-> OrNull(row, "location"),
     language |-> OrDefault(row, "language", English),
     status |-> OrDefault(row, "status", Published)]

\* Lines 502-521, and the entry of the social loop (or of what follows it).
ProfileInsert(p) ==
    /\ pc[p] = "profileInsert"
    /\ Issued(p)
    /\ profiles' = profiles \cup
           {ProfileRow(nextId.profiles, Row(p), categoryId[p], subcategoryId[p])}
    /\ nextId' = [nextId EXCEPT !.profiles = @ + 1]
    /\ profileId' = [profileId EXCEPT ![p] = nextId.profiles]
    /\ todo' = [todo EXCEPT ![p] = SocialTodo(Row(p))]
    /\ IF SocialTodo(Row(p)) # <<>>
       THEN /\ pc' = [pc EXCEPT ![p] = "socialInsert"]
            /\ UNCHANGED tagNames
       ELSE /\ pc' = [pc EXCEPT ![p] = AfterSocial(Row(p))]
            /\ tagNames' = [tagNames EXCEPT ![p] = TagNames(Row(p))]
    /\ UNCHANGED <<categories, social_links, tags, profile_tags, files, req, stream, results,
                   countVars, catsBefore, categoryId, subcategoryId, tagIdx, tagId,
                   responses, snap, failLog, rowsRead, fails,
                   adminVars>>

\* Lines 525-532: the insert for the next platform whose column is truthy.
SocialInsert(p) ==
    /\ pc[p] = "socialInsert"
    /\ Issued(p)
    /\ social_links' = Append(social_links,
           [profile_id |-> profileId[p], platform |-> Head(todo[p]),
            url |-> Col(Row(p), Head(todo[p]))])
    /\ todo' = [todo EXCEPT ![p] = Tail(@)]
    /\ IF Tail(todo[p]) # <<>>
       THEN UNCHANGED <<pc, tagNames>>
       ELSE /\ pc' = [pc EXCEPT ![p] = AfterSocial(Row(p))]
            /\ tagNames' = [tagNames EXCEPT ![p] = TagNames(Row(p))]
    /\ UNCHANGED <<categories, profiles, tags, profile_tags, nextId, files, req, stream, results,
                   countVars, catsBefore, categoryId, subcategoryId, profileId, tagIdx, tagId,
                   responses, snap, failLog, rowsRead, fails,
                   adminVars>>

\* The get-or-create of a tag as an upsert: the lookup's hit sets the tag's
\* type back to the default.
TagSelectResetsType(p) ==
    /\ pc[p] = "tagSelect"
    /\ Issued(p)
    /\ LET m == TagMatches(tagNames[p][tagIdx[p]]) IN
         IF m = {}
         THEN /\ pc' = [pc EXCEPT ![p] = "tagInsert"]
              /\ UNCHANGED <<tagId, tags>>
         ELSE \E g \in m :
                /\ tagId' = [tagId EXCEPT ![p] = g.id]
                /\ tags' = (tags \ {g}) \cup {[g EXCEPT !.type = Contextual]}
                /\ pc' = [pc EXCEPT ![p] = "tagLink"]
    /\ UNCHANGED <<categories, profiles, social_links, profile_tags, nextId, files, req,
                   stream, results, countVars, catsBefore, categoryId, subcategoryId,
                   profileId, todo, tagNames, tagIdx, responses, snap, failLog,
                   rowsRead, fails, adminVars>>


\* Lines 539-545 and 551-553.
TagSelect(p) ==
    /\ pc[p] = "tagSelect"
    /\ Issued(p)
    /\ LET m == TagMatches(tagNames[p][tagIdx[p]]) IN
         IF m = {}
         THEN /\ pc' = [pc EXCEPT ![p] = "tagInsert"]
              /\ UNCHANGED tagId
         ELSE \E g \in m :
                /\ tagId' = [tagId EXCEPT ![p] = g.id]
                /\ pc' = [pc EXCEPT ![p] = "tagLink"]
    /\ UNCHANGED <<storeVars, files, req, stream, results, countVars, catsBefore, categoryId, subcategoryId,
                   profileId, todo, tagNames, tagIdx, responses, snap, failLog,
                   rowsRead, fails,
                   adminVars>>

\* Lines 546-550: INSERT INTO tags (name, type) VALUES ($1, 'contextual') RETURNING id
TagInsert(p) ==
    /\ pc[p] = "tagInsert"
    /\ Issued(p)
    /\ tags' = tags \cup
           {[id |-> nextId.tags, name |-> tagNames[p][tagIdx[p]], type |-> Contextual]}
    /\ nextId' = [nextId EXCEPT !.tags = @ + 1]
    /\ tagId' = [tagId EXCEPT ![p] = nextId.tags]
    /\ pc' = [pc EXCEPT ![p] = "tagLink"]
    /\ UNCHANGED <<categories, profiles, social_links, profile_tags, files, req, stream, results,
                   countVars, catsBefore, categoryId, subcategoryId, profileId, todo, tagNames,
                   tagIdx, responses, snap, failLog, rowsRead, fails,
                   adminVars>>

\* INSERT INTO profile_tags (profile_id, tag_id) VALUES ($1, $2) ON CONFLICT DO NOTHING
\* on the table's key (profile_id, tag_id).
LinkedAlways(table, link) == Append(table, link)

Linked(table, link) ==
    IF \E k \in DOMAIN table : table[k] = link THEN table ELSE Append(table, link)

\* Lines 556-559, and the next turn of the tag loop or its end.
TagLink(p) ==
    /\ pc[p] = "tagLink"
    /\ Issued(p)
    /\ profile_tags' = Linked(profile_tags, [profile_id |-> profileId[p], tag_id |-> tagId[p]])
    /\ tagIdx' = [tagIdx EXCEPT ![p] = @ + 1]
    /\ tagId' = [tagId EXCEPT ![p] = NoId]
    /\ pc' = [pc EXCEPT ![p] = IF tagIdx[p] < Len(tagNames[p]) THEN "tagSelect" ELSE "rowOk"]
    /\ UNCHANGED <<categories, profiles, social_links, tags, nextId, files, req, stream, results,
                   countVars, catsBefore, categoryId, subcategoryId, profileId, todo, tagNames,
                   responses, snap, failLog, rowsRead, fails,
                   adminVars>>

\* Line 563: successCount++, and the next turn of the row loop.
RowSuccess(p) ==
    /\ pc[p] = "rowOk"
    /\ successCount' = [successCount EXCEPT ![p] = @ + 1]
    /\ NextRow(p)
    /\ pc' = [pc EXCEPT ![p] = "loop"]
    /\ UNCHANGED <<storeVars, files, req, stream, results, errors, errorCount, responses, histVars,
                   adminVars>>

\* Lines 564-571: the pending store call rejects; the row's catch records it.
QueryFailsAborts(p, msg) ==
    /\ pc[p] \in StorePcs
    /\ fails < MaxFails
    /\ Issued(p)
    /\ fails' = fails + 1
    /\ failLog' = [failLog EXCEPT ![p] = Append(@, [row |-> i[p], msg |-> msg])]
    /\ errors' = [errors EXCEPT ![p] = Append(@, [row |-> i[p] + 2, error |-> msg])]
    /\ errorCount' = [errorCount EXCEPT ![p] = @ + 1]
    /\ i' = [i EXCEPT ![p] = Len(results[p])]
    /\ categoryId' = [categoryId EXCEPT ![p] = NoId]
    /\ subcategoryId' = [subcategoryId EXCEPT ![p] = NoId]
    /\ profileId' = [profileId EXCEPT ![p] = NoId]
    /\ todo' = [todo EXCEPT ![p] = <<>>]
    /\ tagNames' = [tagNames EXCEPT ![p] = <<>>]
    /\ tagIdx' = [tagIdx EXCEPT ![p] = 1]
    /\ tagId' = [tagId EXCEPT ![p] = NoId]
    /\ catsBefore' = [catsBefore EXCEPT ![p] = {}]
    /\ pc' = [pc EXCEPT ![p] = "loop"]
    /\ UNCHANGED <<storeVars, files, req, stream, results, successCount, responses, snap, rowsRead,
                   adminVars>>

\* The row's catch, were the row's store calls one transaction that the
\* failure rolls back.
QueryFailsRollsBack(p, msg) ==
    /\ pc[p] \in StorePcs
    /\ fails < MaxFails
    /\ Issued(p)
    /\ fails' = fails + 1
    /\ failLog' = [failLog EXCEPT ![p] = Append(@, [row |-> i[p], msg |-> msg])]
    /\ errors' = [errors EXCEPT ![p] = Append(@, [row |-> i[p] + 2, error |-> msg])]
    /\ errorCount' = [errorCount EXCEPT ![p] = @ + 1]
    /\ categories' = catsBefore[p]
    /\ NextRow(p)
    /\ pc' = [pc EXCEPT ![p] = "loop"]
    /\ UNCHANGED <<profiles, social_links, tags, profile_tags, nextId, files, req, stream,
                   results, successCount, responses, snap, rowsRead,
                   adminVars>>


\* The row's catch, were it to answer with a text of its own.
QueryFailsGeneric(p, msg) ==
    /\ pc[p] \in StorePcs
    /\ fails < MaxFails
    /\ Issued(p)
    /\ fails' = fails + 1
    /\ failLog' = [failLog EXCEPT ![p] = Append(@, [row |-> i[p], msg |-> msg])]
    /\ errors' = [errors EXCEPT ![p] =
           Append(@, [row |-> i[p] + 2, error |-> "Error processing row"])]
    /\ errorCount' = [errorCount EXCEPT ![p] = @ + 1]
    /\ NextRow(p)
    /\ pc' = [pc EXCEPT ![p] = "loop"]
    /\ UNCHANGED <<storeVars, files, req, stream, results, successCount, responses, snap, rowsRead,
                   adminVars>>


QueryFails(p, msg) ==
    /\ pc[p] \in StorePcs
    /\ fails < MaxFails
    /\ Issued(p)
    /\ fails' = fails + 1
    /\ failLog' = [failLog EXCEPT ![p] = Append(@, [row |-> i[p], msg |-> msg])]
    /\ errors' = [errors EXCEPT ![p] = Append(@, [row |-> i[p] + 2, error |-> msg])]
    /\ errorCount' = [errorCount EXCEPT ![p] = @ + 1]
    /\ NextRow(p)
    /\ pc' = [pc EXCEPT ![p] = "loop"]
    /\ UNCHANGED <<storeVars, files, req, stream, results, successCount, responses, snap, rowsRead,
                   adminVars>>

\* Lines 574-582: the summary, sent when the row loop is over.
Summary(p) ==
    IF errors[p] = <<>>
    THEN [successCount |-> successCount[p], errorCount |-> errorCount[p]]
    ELSE [successCount |-> successCount[p], errorCount |-> errorCount[p],
          errors |-> errors[p]]

\* The summary sent from inside the row loop, before the last row is done.
RespondEarly(p) ==
    /\ pc[p] = "loop"
    /\ responses' = [responses EXCEPT ![p] =
           Append(@, [status |-> 200, success |-> TRUE, data |-> Summary(p)])]
    /\ pc' = [pc EXCEPT ![p] = "done"]
    /\ UNCHANGED <<storeVars, files, req, stream, results, countVars, rowVars, histVars, adminVars>>


Respond(p) ==
    /\ pc[p] = "loop"
    /\ i[p] >= Len(results[p])
    /\ responses' = [responses EXCEPT ![p] =
           Append(@, [status |-> 200, success |-> TRUE, data |-> Summary(p)])]
    /\ pc' = [pc EXCEPT ![p] = "done"]
    /\ UNCHANGED <<storeVars, files, req, stream, results, countVars, rowVars, histVars, adminVars>>

\* The answered request is over; its slot serves the next request.
Close(p) ==
    /\ pc[p] = "done"
    /\ pc' = [pc EXCEPT ![p] = "idle"]
    /\ req' = [req EXCEPT ![p] = [file |-> FALSE]]
    /\ stream' = [stream EXCEPT ![p] = "none"]
    /\ results' = [results EXCEPT ![p] = <<>>]
    /\ errors' = [errors EXCEPT ![p] = <<>>]
    /\ successCount' = [successCount EXCEPT ![p] = 0]
    /\ errorCount' = [errorCount EXCEPT ![p] = 0]
    /\ i' = [i EXCEPT ![p] = 0]
    /\ responses' = [responses EXCEPT ![p] = <<>>]
    /\ snap' = [snap EXCEPT ![p] = EmptySnap]
    /\ calls' = [calls EXCEPT ![p] = 0]
    /\ failLog' = [failLog EXCEPT ![p] = <<>>]
    /\ UNCHANGED <<storeVars, files, rowVars, rowsRead, fails, adminVars>>

\* ---------------------------------------------------------------- specification

Step(p) ==
    \/ NoFile(p)
    \/ BeginParse(p)
    \/ OnEnd(p)
    \/ RejectRow(p)
    \/ StartRow(p)
    \/ CategorySelect(p)
    \/ CategoryInsert(p)
    \/ SubcategorySelect(p)
    \/ SubcategoryInsert(p)
    \/ ProfileInsert(p)
    \/ SocialInsert(p)
    \/ TagSelect(p)
    \/ TagInsert(p)
    \/ TagLink(p)
    \/ RowSuccess(p)
    \/ Respond(p)
    \/ \E row \in RowSet : OnData(p, row)
    \/ \E msg \in ErrMsgs : OnError(p, msg)
    \/ \E msg \in ErrMsgs : QueryFails(p, msg)

Next ==
    \/ \E p \in Procs, hasFile \in BOOLEAN : Arrive(p, hasFile)
    \/ \E p \in Procs : Step(p)
    \/ \E p \in Procs : Close(p)

Spec == Init /\ [][Next]_vars

\* The event loop runs every handler and continuation that is ready: the parser
\* of a finite file ends or fails, and every store call returns or fails.
Fairness == \A p \in Procs : WF_vars(Step(p))

FairSpec == Init /\ [][Next]_vars /\ Fairness

\* ---------------------------------------------------------------- overlapping imports

\* A second request reaches uploadCSV while the first is being served; Node
\* interleaves the two handlers at every await and stream event.  The second
\* arrives before the first handler has run: one that arrives later behaves
\* as one that arrived then and whose steps came later.
ArriveDuring(p, hasFile) ==
    /\ p # FirstSlot
    /\ pc[p] = "idle"
    /\ pc[FirstSlot] = "received"
    /\ pc' = [pc EXCEPT ![p] = "received"]
    /\ req' = [req EXCEPT ![p] = [file |-> hasFile]]
    /\ files' = IF hasFile THEN files \cup {p} ELSE files
    /\ snap' = [snap EXCEPT ![p] = [StoreSnap EXCEPT !.files = files']]
    /\ UNCHANGED <<storeVars, stream, results, countVars, rowVars, responses,
                   calls, failLog, rowsRead, fails,
                   adminVars>>

ConcNext ==
    \/ Next
    \/ \E p \in Procs, hasFile \in BOOLEAN : ArriveDuring(p, hasFile)

ConcSpec == Init /\ [][ConcNext]_vars


\* ---------------------------------------------------------------- admin CRUD: texts and inputs

\* Ids the create handlers may hand out, all tables together, while the CRUD
\* handlers are explored.
MaxIds == 3

\* 'draft', the default of createProfile's status.
Draft == <<"d", "r", "a", "f", "t">>

\* The characters of the alphabet that \w matches, after toLowerCase().
WordChars == {"a", "b", "c", "d", "f", "l", "m", "p", "s", "w", "y", "_"}

\* The characters that /[\s_-]+/ matches.
Separators == {" ", "_", "-"}

RECURSIVE DashAcc(_, _)
DashAcc(s, acc) ==
    IF s = <<>> THEN acc
    ELSE IF Head(s) \in Separators
         THEN DashAcc(Tail(s),
                      IF acc # <<>> /\ acc[Len(acc)] = "-" THEN acc ELSE Append(acc, "-"))
         ELSE DashAcc(Tail(s), Append(acc, Head(s)))

RECURSIVE StripLeft(_)
StripLeft(s) == IF s # <<>> /\ Head(s) = "-" THEN StripLeft(Tail(s)) ELSE s

RECURSIVE StripRight(_)
StripRight(s) ==
    IF s # <<>> /\ s[Len(s)] = "-" THEN StripRight(SubSeq(s, 1, Len(s) - 1)) ELSE s

\* createSlug(name): lower case, trim, drop what is not a word character,
\* white space or a hyphen, turn each run of separators into one hyphen,
\* strip the hyphens at both ends.
createSlug(name) ==
    LET kept == SelectSeq(Trim(Lower(name)),
                          LAMBDA c : c \in WordChars \cup {" ", "-"})
    IN StripRight(StripLeft(DashAcc(kept, <<>>)))

\* parseInt's result for a text that does not begin with a digit.
NaN == -1

DigitVal(c) ==
    CASE c = "0" -> 0 [] c = "1" -> 1 [] c = "2" -> 2 [] c = "3" -> 3 [] c = "4" -> 4
      [] c = "5" -> 5 [] c = "6" -> 6 [] c = "7" -> 7 [] c = "8" -> 8 [] c = "9" -> 9
      [] OTHER -> NaN

RECURSIVE ParseAcc(_, _)
ParseAcc(s, acc) ==
    IF s = <<>> \/ DigitVal(Head(s)) = NaN THEN acc
    ELSE ParseAcc(Tail(s), (IF acc = NaN THEN 0 ELSE acc) * 10 + DigitVal(Head(s)))

\* parseInt(text): the number its leading digits write, NaN when it has none
\* (the texts of the queries carry no sign and no leading white space).
parseInt(s) == ParseAcc(s, NaN)

\* parseInt(req.query[key]) || dflt: undefined, NaN and 0 give the default.
QueryInt(q, key, dflt) ==
    LET n == IF key \in DOMAIN q THEN parseInt(q[key]) ELSE NaN
    IN IF n = NaN \/ n = 0 THEN dflt ELSE n

\* The request without a body, parameters or query string values.
Nothing == [k \in {} |-> <<>>]

\* The requests the admin CRUD handlers are given.
AdminRequests ==
    {[op |-> "createCategory", body |-> b] :
        b \in {[name |-> <<"M", ",", " ", "P">>],
               [name |-> <<"M">>, slug |-> <<"s">>],
               [slug |-> <<"s">>]}}
    \cup {[op |-> "getCategories"]}
    \cup {[op |-> "deleteCategory", id |-> n] : n \in 1..MaxIds}
    \cup {[op |-> "createSubcategory", body |-> b] :
        b \in {[name |-> <<"P">>, category_id |-> 1],
               [name |-> <<"P">>]}}
    \cup {[op |-> "createProfile", body |-> b] :
        b \in {[name |-> <<"a">>, category_id |-> 1, status |-> Published,
                subcategory_ids |-> <<1>>,
                social_links |-> <<[platform |-> "youtube", url |-> <<"y">>],
                                   [platform |-> "twitter", url |-> <<>>]>>],
               [name |-> <<"b">>, category_id |-> 2, subcategory_ids |-> <<1>>],
               [name |-> <<"c">>]}}
    \cup {[op |-> "getAllProfiles", query |-> q] :
        q \in {Nothing,
               [limit |-> <<"1">>],
               [page |-> <<"2">>, limit |-> <<"1">>],
               [status |-> Published]}}
    \cup {[op |-> "deleteProfile", id |-> n] : n \in 1..MaxIds}


\* ---------------------------------------------------------------- admin CRUD: queries

\* The default of limit in getAllProfiles.
DefaultLimit == 12

\* profiles.created_at, the instant of the insert: later inserts carry later
\* instants, as the serial id does.
CreatedAt(pr) == pr.id

\* ORDER BY p.created_at ASC
RECURSIVE OldestFirst(_)
OldestFirst(S) ==
    IF S = {} THEN <<>>
    ELSE LET m == CHOOSE x \in S : \A y \in S : CreatedAt(x) <= CreatedAt(y)
         IN <<m>> \o OldestFirst(S \ {m})

\* ORDER BY p.created_at DESC
RECURSIVE NewestFirst(_)
NewestFirst(S) ==
    IF S = {} THEN <<>>
    ELSE LET m == CHOOSE x \in S : \A y \in S : CreatedAt(y) <= CreatedAt(x)
         IN <<m>> \o NewestFirst(S \ {m})

\* The WHERE clauses of getAllProfiles for the query values drawn: status.
Filtered(q) == {pr \in profiles : Truthy(q, "status") => pr.status = q["status"]}

\* LIMIT $n OFFSET $m on the ordered rows.
PageRows(q) ==
    LET limit == QueryInt(q, "limit", DefaultLimit)
        offset == (QueryInt(q, "page", 1) - 1) * limit
        sorted == NewestFirst(Filtered(q))
    IN SubSeq(sorted, offset + 1, IF offset + limit < Len(sorted) THEN offset + limit
                                  ELSE Len(sorted))

\* c.name of the LEFT JOIN categories c ON p.category_id = c.id.
CategoryName(pr) ==
    IF \E c \in categories : c.id = pr.category_id
    THEN (CHOOSE c \in categories : c.id = pr.category_id).name
    ELSE Null

\* The two selects of one profile inside Promise.all, and the merged row.
Enriched(pr) ==
    [id |-> pr.id,
     row |-> pr,
     category_name |-> CategoryName(pr),
     subcategories |->
         {[id |-> sc.id, name |-> sc.name] :
             sc \in {t \in subcategories :
                        \E k \in DOMAIN profile_subcategories :
                            profile_subcategories[k] =
                                [profile_id |-> pr.id, subcategory_id |-> t.id]}},
     social_links |->
         LET own == SelectSeq(social_links, LAMBDA l : l.profile_id = pr.id)
         IN [k \in DOMAIN own |-> [platform |-> own[k].platform, url |-> own[k].url]]]

\* Math.ceil(total / limit)
CeilDiv(a, b) == (a + b - 1) \div b

\* The pagination object of getAllProfiles.
Pagination(q) ==
    LET limit == QueryInt(q, "limit", DefaultLimit)
        total == Cardinality(Filtered(q))
    IN [page |-> QueryInt(q, "page", 1), limit |-> limit, total |-> total,
        totalPages |-> CeilDiv(total, limit)]

\* The rows of getCategories: every category once, with its two counts.
CategoryListInnerJoin ==
    {[row |-> c, id |-> c.id,
      subcategory_count |-> Cardinality({t \in subcategories : t.category_id = c.id}),
      profile_count |-> Cardinality({pr \in profiles : pr.category_id = c.id})] :
        c \in {d \in categories : \E t \in subcategories : t.category_id = d.id}}

CategoryList ==
    {[row |-> c, id |-> c.id,
      subcategory_count |-> Cardinality({t \in subcategories : t.category_id = c.id}),
      profile_count |-> Cardinality({pr \in profiles : pr.category_id = c.id})] :
        c \in categories}


\* ---------------------------------------------------------------- admin CRUD: handlers

\* What the upload handlers own; the CRUD handlers leave it alone.
uploadOwn == <<files, pc, req, stream, results, countVars, rowVars, responses,
               snap, calls, failLog, rowsRead>>

\* The apc values at which a store call is pending.
AdminStorePcs ==
    {"ccInsert", "gcSelect", "dcCount", "dcLinks", "dcSubs", "dcRow", "csInsert",
     "cpInsert", "cpSub", "cpLink", "gpPage", "gpEnrich", "gpCount",
     "dpSubs", "dpLinks", "dpTags", "dpRow"}

\* The first store call of each handler.
FirstCall(op) ==
    CASE op = "createCategory" -> "ccInsert"
      [] op = "getCategories" -> "gcSelect"
      [] op = "deleteCategory" -> "dcCount"
      [] op = "createSubcategory" -> "csInsert"
      [] op = "createProfile" -> "cpInsert"
      [] op = "getAllProfiles" -> "gpPage"
      [] op = "deleteProfile" -> "dpSubs"

\* !category_id of a request body.
NoIdIn(body, key) == key \notin DOMAIN body \/ body[key] = NoId

\* The validation at the head of the three create handlers.
AdminRejects(r) ==
    CASE r.op = "createCategory" -> ~Truthy(r.body, "name")
      [] r.op = "createSubcategory" ->
            ~Truthy(r.body, "name") \/ NoIdIn(r.body, "category_id")
      [] r.op = "createProfile" ->
            ~Truthy(r.body, "name") \/ NoIdIn(r.body, "category_id")
      [] OTHER -> FALSE

\* The message of the 400 that the validation sends.
RejectMessage(op) ==
    CASE op = "createCategory" -> "Category name is required"
      [] op = "createSubcategory" -> "Subcategory name and category ID are required"
      [] op = "createProfile" -> "Name and category are required"

\* The message of the 500 that each handler's catch sends.
CatchMessage(op) ==
    CASE op = "createCategory" -> "Error creating category"
      [] op = "getCategories" -> "Error fetching categories"
      [] op = "deleteCategory" -> "Error deleting category"
      [] op = "createSubcategory" -> "Error creating subcategory"
      [] op = "createProfile" -> "Error creating profile"
      [] op = "getAllProfiles" -> "Error fetching profiles"
      [] op = "deleteProfile" -> "Error deleting profile"

\* The rows the create handlers have inserted so far, all tables together.
Created == (nextId.categories - 1) + (nextId.subcategories - 1) + (nextId.profiles - 1)

\* A create request is taken while there are ids left to hand out.
IdsLeft(r) ==
    r.op \in {"createCategory", "createSubcategory", "createProfile"} => Created < MaxIds

\* res.json(body) or res.status(n).json(body), and the handler is over.
Answer(body) ==
    /\ aresp' = Append(aresp, body)
    /\ apc' = "adone"

\* A request reaches a CRUD handler, which runs up to its first store call
\* or to the 400 of its validation.  The CRUD requests are served one after
\* another.
AdminArrive(r) ==
    /\ apc = "idle"
    /\ IdsLeft(r)
    /\ areq' = r
    /\ aloc' = NoLocals
    /\ IF AdminRejects(r)
       THEN Answer([status |-> 400, success |-> FALSE, message |-> RejectMessage(r.op)])
       ELSE /\ apc' = FirstCall(r.op)
            /\ aresp' = <<>>
    /\ UNCHANGED <<storeVars, uploadOwn, fails, subcategories, profile_subcategories,
                   okIds, goneIds>>

\* slug || createSlug(name)
SlugOf(body) == IF Truthy(body, "slug") THEN body["slug"] ELSE createSlug(body["name"])

\* createCategory: INSERT INTO categories (name, slug) ... RETURNING *
CreateCategoryInsert ==
    /\ apc = "ccInsert"
    /\ LET made == [id |-> nextId.categories, name |-> areq.body["name"],
                    slug |-> SlugOf(areq.body), parent_id |-> NoId]
       IN /\ categories' = categories \cup {made}
          /\ Answer([status |-> 200, success |-> TRUE,
                     message |-> "Category created successfully", data |-> made])
          /\ okIds' = [okIds EXCEPT !.categories = @ \cup {made.id}]
    /\ nextId' = [nextId EXCEPT !.categories = @ + 1]
    /\ UNCHANGED <<profiles, social_links, tags, profile_tags, uploadOwn, fails,
                   subcategories, profile_subcategories, areq, aloc, goneIds>>

\* getCategories: the one select, and its rows as the answer.
GetCategoriesSelect ==
    /\ apc = "gcSelect"
    /\ Answer([status |-> 200, success |-> TRUE, data |-> CategoryList])
    /\ UNCHANGED <<storeVars, uploadOwn, fails, subcategories, profile_subcategories,
                   areq, aloc, okIds, goneIds>>

\* createSubcategory: INSERT INTO subcategories (name, category_id, slug) ... RETURNING *
CreateSubcategoryInsert ==
    /\ apc = "csInsert"
    /\ LET made == [id |-> nextId.subcategories, name |-> areq.body["name"],
                    category_id |-> areq.body["category_id"], slug |-> SlugOf(areq.body)]
       IN /\ subcategories' = subcategories \cup {made}
          /\ Answer([status |-> 200, success |-> TRUE,
                     message |-> "Subcategory created successfully", data |-> made])
          /\ okIds' = [okIds EXCEPT !.subcategories = @ \cup {made.id}]
    /\ nextId' = [nextId EXCEPT !.subcategories = @ + 1]
    /\ UNCHANGED <<categories, profiles, social_links, tags, profile_tags, uploadOwn, fails,
                   profile_subcategories, areq, aloc, goneIds>>


\* deleteCategory without the check of lines 773-784: the count is read and
\* the handler goes on to the deletes.
DeleteCategoryCountIgnored ==
    /\ apc = "dcCount"
    /\ apc' = "dcLinks"
    /\ UNCHANGED <<storeVars, uploadOwn, fails, subcategories, profile_subcategories,
                   areq, aloc, aresp, okIds, goneIds>>


\* deleteCategory: SELECT COUNT(*) FROM profiles WHERE category_id = $1
DeleteCategoryCount ==
    /\ apc = "dcCount"
    /\ IF \E pr \in profiles : pr.category_id = areq.id
       THEN Answer([status |-> 400, success |-> FALSE,
                    message |-> "Cannot delete category with associated profiles"])
       ELSE /\ apc' = "dcLinks"
            /\ UNCHANGED aresp
    /\ UNCHANGED <<storeVars, uploadOwn, fails, subcategories, profile_subcategories,
                   areq, aloc, okIds, goneIds>>

\* DELETE FROM profile_subcategories WHERE subcategory_id IN
\*   (SELECT id FROM subcategories WHERE category_id = $1)
DeleteCategoryLinks ==
    /\ apc = "dcLinks"
    /\ profile_subcategories' =
           SelectSeq(profile_subcategories,
                     LAMBDA l : ~\E t \in subcategories :
                                    t.category_id = areq.id /\ t.id = l.subcategory_id)
    /\ apc' = "dcSubs"
    /\ UNCHANGED <<storeVars, uploadOwn, fails, subcategories, areq, aloc, aresp,
                   okIds, goneIds>>

\* DELETE FROM subcategories WHERE category_id = $1
DeleteCategorySubs ==
    /\ apc = "dcSubs"
    /\ subcategories' = {t \in subcategories : t.category_id # areq.id}
    /\ apc' = "dcRow"
    /\ UNCHANGED <<storeVars, uploadOwn, fails, profile_subcategories, areq, aloc, aresp,
                   okIds, goneIds>>

\* DELETE FROM categories WHERE id = $1 RETURNING *, then the 404 or the 200.
DeleteCategoryRow ==
    /\ apc = "dcRow"
    /\ categories' = {c \in categories : c.id # areq.id}
    /\ IF \E c \in categories : c.id = areq.id
       THEN /\ Answer([status |-> 200, success |-> TRUE,
                       message |-> "Category deleted successfully"])
            /\ goneIds' = [goneIds EXCEPT !.categories = @ \cup {areq.id}]
       ELSE /\ Answer([status |-> 404, success |-> FALSE, message |-> "Category not found"])
            /\ UNCHANGED goneIds
    /\ UNCHANGED <<profiles, social_links, tags, profile_tags, nextId, uploadOwn, fails,
                   subcategories, profile_subcategories, areq, aloc, okIds>>

\* The row createProfile inserts: undefined values are sent as NULL, status
\* has the destructuring default 'draft', subcategory_id is not among the columns.
NewProfile(id, body) ==
    [id |-> id,
     name |-> body["name"],
     category_id |-> body["category_id"],
     subcategory_id |-> NoId,
     image_url |-> Col(body, "image_url"),
     insight |-> Col(body, "insight"),
     notes |-> Col(body, "notes"),
     notes_url |-> Col(body, "notes_url"),
     location |-> Col(body, "location"),
     language |-> Col(body, "language"),
     status |-> IF "status" \in DOMAIN body THEN body["status"] ELSE Draft]

\* subcategory_ids = [] of the destructuring.
SubcategoryIds(body) ==
    IF "subcategory_ids" \in DOMAIN body THEN body["subcategory_ids"] ELSE <<>>

\* The links of social_links = [] whose insert is issued: link.platform && link.url.
LinksToInsert(body) ==
    IF "social_links" \in DOMAIN body
    THEN SelectSeq(body["social_links"], LAMBDA l : l.platform # "" /\ l.url # <<>>)
    ELSE <<>>

\* createProfile's res.json after its last store call.
CreateProfileAnswer(made) ==
    /\ Answer([status |-> 200, success |-> TRUE,
               message |-> "Profile created successfully", data |-> made])
    /\ okIds' = [okIds EXCEPT !.profiles = @ \cup {made.id}]

\* createProfile: INSERT INTO profiles (...) RETURNING *
CreateProfileInsert ==
    /\ apc = "cpInsert"
    /\ LET made == NewProfile(nextId.profiles, areq.body)
           subs == SubcategoryIds(areq.body)
           links == LinksToInsert(areq.body)
       IN /\ profiles' = profiles \cup {made}
          /\ IF subs # <<>>
             THEN /\ aloc' = [profileId |-> made.id, rest |-> subs, rows |-> <<made>>]
                  /\ apc' = "cpSub"
                  /\ UNCHANGED <<aresp, okIds>>
             ELSE IF links # <<>>
             THEN /\ aloc' = [profileId |-> made.id, rest |-> links, rows |-> <<made>>]
                  /\ apc' = "cpLink"
                  /\ UNCHANGED <<aresp, okIds>>
             ELSE /\ aloc' = [profileId |-> made.id, rest |-> <<>>, rows |-> <<made>>]
                  /\ CreateProfileAnswer(made)
    /\ nextId' = [nextId EXCEPT !.profiles = @ + 1]
    /\ UNCHANGED <<categories, social_links, tags, profile_tags, uploadOwn, fails,
                   subcategories, profile_subcategories, areq, goneIds>>

\* INSERT INTO profile_subcategories (profile_id, subcategory_id) VALUES ($1, $2)
CreateProfileSub ==
    /\ apc = "cpSub"
    /\ profile_subcategories' = Append(profile_subcategories,
           [profile_id |-> aloc.profileId, subcategory_id |-> Head(aloc.rest)])
    /\ LET links == LinksToInsert(areq.body) IN
         IF Tail(aloc.rest) # <<>>
         THEN /\ aloc' = [aloc EXCEPT !.rest = Tail(@)]
              /\ UNCHANGED <<apc, aresp, okIds>>
         ELSE IF links # <<>>
         THEN /\ aloc' = [aloc EXCEPT !.rest = links]
              /\ apc' = "cpLink"
              /\ UNCHANGED <<aresp, okIds>>
         ELSE /\ aloc' = [aloc EXCEPT !.rest = <<>>]
              /\ CreateProfileAnswer(aloc.rows[1])
    /\ UNCHANGED <<storeVars, uploadOwn, fails, subcategories, areq, goneIds>>

\* INSERT INTO social_links (profile_id, platform, url) VALUES ($1, $2, $3)
CreateProfileLink ==
    /\ apc = "cpLink"
    /\ social_links' = Append(social_links,
           [profile_id |-> aloc.profileId, platform |-> Head(aloc.rest).platform,
            url |-> Head(aloc.rest).url])
    /\ aloc' = [aloc EXCEPT !.rest = Tail(@)]
    /\ IF Tail(aloc.rest) # <<>>
       THEN UNCHANGED <<apc, aresp, okIds>>
       ELSE CreateProfileAnswer(aloc.rows[1])
    /\ UNCHANGED <<categories, profiles, tags, profile_tags, nextId, uploadOwn, fails,
                   subcategories, profile_subcategories, areq, goneIds>>


\* getAllProfiles: the select of the page.
GetProfilesPage ==
    /\ apc = "gpPage"
    /\ aloc' = [aloc EXCEPT !.rows = PageRows(areq.query)]
    /\ apc' = "gpEnrich"
    /\ UNCHANGED <<storeVars, uploadOwn, fails, subcategories, profile_subcategories,
                   areq, aresp, okIds, goneIds>>

\* The Promise.all over the page: two selects per profile.  They only read,
\* and the CRUD requests are served one after another, so they are one step.
GetProfilesEnrich ==
    /\ apc = "gpEnrich"
    /\ aloc' = [aloc EXCEPT !.rows = [k \in DOMAIN aloc.rows |-> Enriched(aloc.rows[k])]]
    /\ apc' = "gpCount"
    /\ UNCHANGED <<storeVars, uploadOwn, fails, subcategories, profile_subcategories,
                   areq, aresp, okIds, goneIds>>

\* The count under the same filters, and the answer.
GetProfilesCount ==
    /\ apc = "gpCount"
    /\ Answer([status |-> 200, success |-> TRUE, data |-> [profiles |-> aloc.rows],
               pagination |-> Pagination(areq.query)])
    /\ UNCHANGED <<storeVars, uploadOwn, fails, subcategories, profile_subcategories,
                   areq, aloc, okIds, goneIds>>

\* deleteProfile: DELETE FROM profile_subcategories WHERE profile_id = $1
DeleteProfileSubs ==
    /\ apc = "dpSubs"
    /\ profile_subcategories' =
           SelectSeq(profile_subcategories, LAMBDA l : l.profile_id # areq.id)
    /\ apc' = "dpLinks"
    /\ UNCHANGED <<storeVars, uploadOwn, fails, subcategories, areq, aloc, aresp,
                   okIds, goneIds>>

\* DELETE FROM social_links WHERE profile_id = $1
DeleteProfileLinks ==
    /\ apc = "dpLinks"
    /\ social_links' = SelectSeq(social_links, LAMBDA l : l.profile_id # areq.id)
    /\ apc' = "dpTags"
    /\ UNCHANGED <<categories, profiles, tags, profile_tags, nextId, uploadOwn, fails,
                   subcategories, profile_subcategories, areq, aloc, aresp, okIds, goneIds>>

\* deleteProfile without the delete of the tag links.
DeleteProfileTagsSkipped ==
    /\ apc = "dpTags"
    /\ apc' = "dpRow"
    /\ UNCHANGED <<storeVars, uploadOwn, fails, subcategories, profile_subcategories,
                   areq, aloc, aresp, okIds, goneIds>>


\* DELETE FROM profile_tags WHERE profile_id = $1
DeleteProfileTags ==
    /\ apc = "dpTags"
    /\ profile_tags' = SelectSeq(profile_tags, LAMBDA l : l.profile_id # areq.id)
    /\ apc' = "dpRow"
    /\ UNCHANGED <<categories, profiles, social_links, tags, nextId, uploadOwn, fails,
                   subcategories, profile_subcategories, areq, aloc, aresp, okIds, goneIds>>

\* DELETE FROM profiles WHERE id = $1 RETURNING *, then the 404 or the 200.
DeleteProfileRow ==
    /\ apc = "dpRow"
    /\ profiles' = {pr \in profiles : pr.id # areq.id}
    /\ IF \E pr \in profiles : pr.id = areq.id
       THEN /\ Answer([status |-> 200, success |-> TRUE,
                       message |-> "Profile deleted successfully"])
            /\ goneIds' = [goneIds EXCEPT !.profiles = @ \cup {areq.id}]
       ELSE /\ Answer([status |-> 404, success |-> FALSE, message |-> "Profile not found"])
            /\ UNCHANGED goneIds
    /\ UNCHANGED <<categories, social_links, tags, profile_tags, nextId, uploadOwn, fails,
                   subcategories, profile_subcategories, areq, aloc, okIds>>

\* The pending store call of a CRUD handler rejects; the handler's catch
\* answers 500.  getAllProfiles alone passes the error's message on.  The
\* Promise.all over an empty page issues no store call.
AdminQueryFails(msg) ==
    /\ apc \in AdminStorePcs
    /\ apc = "gpEnrich" => aloc.rows # <<>>
    /\ fails < MaxFails
    /\ fails' = fails + 1
    /\ Answer(IF areq.op = "getAllProfiles"
              THEN [status |-> 500, success |-> FALSE,
                    message |-> CatchMessage(areq.op), error |-> msg]
              ELSE [status |-> 500, success |-> FALSE, message |-> CatchMessage(areq.op)])
    /\ UNCHANGED <<storeVars, uploadOwn, subcategories, profile_subcategories,
                   areq, aloc, okIds, goneIds>>

\* The answered CRUD request is over; the next one may arrive.
AdminClose ==
    /\ apc = "adone"
    /\ apc' = "idle"
    /\ areq' = NoRequest
    /\ aloc' = NoLocals
    /\ aresp' = <<>>
    /\ UNCHANGED <<storeVars, uploadOwn, fails, subcategories, profile_subcategories,
                   okIds, goneIds>>

AdminStep ==
    \/ CreateCategoryInsert
    \/ GetCategoriesSelect
    \/ CreateSubcategoryInsert
    \/ DeleteCategoryCount
    \/ DeleteCategoryLinks
    \/ DeleteCategorySubs
    \/ DeleteCategoryRow
    \/ CreateProfileInsert
    \/ CreateProfileSub
    \/ CreateProfileLink
    \/ GetProfilesPage
    \/ GetProfilesEnrich
    \/ GetProfilesCount
    \/ DeleteProfileSubs
    \/ DeleteProfileLinks
    \/ DeleteProfileTags
    \/ DeleteProfileRow
    \/ \E msg \in ErrMsgs : AdminQueryFails(msg)

AdminNext ==
    \/ \E r \in AdminRequests : AdminArrive(r)
    \/ AdminStep
    \/ AdminClose

\* The CRUD handlers alone, one request after another.
AdminSpec == Init /\ [][AdminNext]_vars


\* ---------------------------------------------------------------- tag reclassification

Universal == <<"u", "n", "i", "v", "e", "r", "s", "a", "l">>

\* !type || !['universal', 'contextual'].includes(type)
InvalidType(body) ==
    ~Truthy(body, "type") \/ body["type"] \notin {Universal, Contextual}

\* The requests forceTagClassification is given: the id of a tags row, and a
\* body with a type of the list, another type, or none.
ForceRequests ==
    {[op |-> "forceTagClassification", id |-> g.id, body |-> b] :
        g \in tags,
        b \in {[type |-> Universal], [type |-> Contextual], [type |-> <<"x">>], Nothing}}

\* tagClassificationService.forceClassification(id, type): the reclassification
\* of the tag, which sets the type of the tags row with that id.
forceClassification(id, type) ==
    {IF g.id = id THEN [g EXCEPT !.type = type] ELSE g : g \in tags}

\* A request reaches forceTagClassification between two imports; the handler
\* runs up to the service call or to the 400 of its validation.
ForceTagArrive(r) ==
    /\ apc = "idle"
    /\ \A p \in Procs : pc[p] = "idle"
    /\ areq' = r
    /\ aloc' = NoLocals
    /\ IF InvalidType(r.body)
       THEN Answer([status |-> 400, success |-> FALSE,
                    message |-> "Invalid type. Must be \"universal\" or \"contextual\""])
       ELSE /\ apc' = "ftForce"
            /\ aresp' = <<>>
    /\ UNCHANGED <<storeVars, uploadOwn, fails, subcategories, profile_subcategories,
                   okIds, goneIds>>

\* const tag = await forceClassification(id, type), and the 200 with the tag.
ForceTagUpdate ==
    /\ apc = "ftForce"
    /\ tags' = forceClassification(areq.id, areq.body["type"])
    /\ Answer([status |-> 200, success |-> TRUE,
               data |-> CHOOSE g \in tags' : g.id = areq.id,
               message |-> <<"manually classified as", areq.body["type"]>>])
    /\ UNCHANGED <<categories, profiles, social_links, profile_tags, nextId, uploadOwn,
                   fails, subcategories, profile_subcategories, areq, aloc, okIds, goneIds>>

\* The service call rejects; the handler's catch answers 500 with the message.
ForceTagFails(msg) ==
    /\ apc = "ftForce"
    /\ fails < MaxFails
    /\ fails' = fails + 1
    /\ Answer([status |-> 500, success |-> FALSE,
               message |-> "Error forcing tag classification", error |-> msg])
    /\ UNCHANGED <<storeVars, uploadOwn, subcategories, profile_subcategories,
                   areq, aloc, okIds, goneIds>>

\* An import arrives when no other request is being served.
ArriveAlone(p, hasFile) ==
    /\ apc = "idle"
    /\ Arrive(p, hasFile)

TagNext ==
    \/ \E p \in Procs, hasFile \in BOOLEAN : ArriveAlone(p, hasFile)
    \/ \E p \in Procs : Step(p)
    \/ \E p \in Procs : Close(p)
    \/ \E r \in ForceRequests : ForceTagArrive(r)
    \/ ForceTagUpdate
    \/ \E msg \in ErrMsgs : ForceTagFails(msg)
    \/ AdminClose

\* The imports, one after another, with reclassifications of tags between them.
TagSpec == Init /\ [][TagNext]_vars


\* ---------------------------------------------------------------- deleteCategory during an import

\* The deleteCategory requests.
DeleteCategoryRequests == {r \in AdminRequests : r.op = "deleteCategory"}

\* A deleteCategory request arrives while an import is at work on a row, for
\* the category that the row has been resolved to.
DeleteDuring(r) ==
    /\ \E p \in Procs : categoryId[p] = r.id
    /\ AdminArrive(r)

\* Node interleaves the two handlers at every await.
RaceNext ==
    \/ Next
    \/ \E r \in DeleteCategoryRequests : DeleteDuring(r)
    \/ DeleteCategoryCount
    \/ DeleteCategoryLinks
    \/ DeleteCategorySubs
    \/ DeleteCategoryRow
    \/ \E msg \in ErrMsgs : AdminQueryFails(msg)
    \/ AdminClose

RaceSpec == Init /\ [][RaceNext]_vars


\* ---------------------------------------------------------------- updateProfile

\* The requests updateProfile is given: the id of the first profile, which is
\* in the table or not, and a body with new links, one of them without a url,
\* or an empty body.
UpdateRequests ==
    {[op |-> "updateProfile", id |-> n, body |-> b] :
        n \in {1},
        b \in {[name |-> <<"d">>, subcategory_ids |-> <<2, 1>>,
                social_links |-> <<[platform |-> "tiktok", url |-> <<"w">>],
                                   [platform |-> "twitter", url |-> <<>>]>>],
               Nothing}}

\* COALESCE($n, column): an undefined parameter is sent as NULL and keeps the
\* column's value.
Coalesce(body, key, old) == IF key \in DOMAIN body THEN body[key] ELSE old

\* The row that the UPDATE of updateProfile leaves.
UpdatedProfile(pr, body) ==
    [pr EXCEPT !.name = Coalesce(body, "name", pr.name),
               !.category_id = Coalesce(body, "category_id", pr.category_id),
               !.image_url = Col(body, "image_url"),
               !.insight = Col(body, "insight"),
               !.notes = Col(body, "notes"),
               !.notes_url = Col(body, "notes_url"),
               !.location = Col(body, "location"),
               !.language = Coalesce(body, "language", pr.language),
               !.status = Coalesce(body, "status", pr.status)]

\* social_links = [] of the destructuring.
SocialLinksOf(body) == IF "social_links" \in DOMAIN body THEN body["social_links"] ELSE <<>>

\* The apc values at which a store call of updateProfile is pending.
UpdatePcs == {"upRow", "upDelSubs", "upSub", "upDelLinks", "upLink"}

\* A request reaches updateProfile, which runs up to its first store call.
\* The requests are served one after another.
UpdateProfileArrive(r) ==
    /\ apc = "idle"
    /\ \A p \in Procs : pc[p] = "idle"
    /\ areq' = r
    /\ aloc' = NoLocals
    /\ apc' = "upRow"
    /\ aresp' = <<>>
    /\ UNCHANGED <<storeVars, uploadOwn, fails, subcategories, profile_subcategories,
                   okIds, goneIds>>

\* UPDATE profiles SET ... WHERE id = $10 RETURNING *, and the 404 when no row
\* was updated.
UpdateProfileRow ==
    /\ apc = "upRow"
    /\ IF \E pr \in profiles : pr.id = areq.id
       THEN LET old == CHOOSE pr \in profiles : pr.id = areq.id
                new == UpdatedProfile(old, areq.body)
            IN /\ profiles' = (profiles \ {old}) \cup {new}
               /\ aloc' = [profileId |-> areq.id, rest |-> <<>>, rows |-> <<new>>]
               /\ apc' = "upDelSubs"
               /\ UNCHANGED aresp
       ELSE /\ Answer([status |-> 404, success |-> FALSE, message |-> "Profile not found"])
            /\ UNCHANGED <<profiles, aloc>>
    /\ UNCHANGED <<categories, social_links, tags, profile_tags, nextId, uploadOwn, fails,
                   subcategories, profile_subcategories, areq, okIds, goneIds>>

\* DELETE FROM profile_subcategories WHERE profile_id = $1
UpdateProfileDelSubs ==
    /\ apc = "upDelSubs"
    /\ profile_subcategories' =
           SelectSeq(profile_subcategories, LAMBDA l : l.profile_id # areq.id)
    /\ LET subs == SubcategoryIds(areq.body) IN
         IF subs # <<>>
         THEN /\ aloc' = [aloc EXCEPT !.rest = subs]
              /\ apc' = "upSub"
         ELSE /\ apc' = "upDelLinks"
              /\ UNCHANGED aloc
    /\ UNCHANGED <<storeVars, uploadOwn, fails, subcategories, areq, aresp, okIds, goneIds>>

\* INSERT INTO profile_subcategories (profile_id, subcategory_id) VALUES ($1, $2)
UpdateProfileSub ==
    /\ apc = "upSub"
    /\ profile_subcategories' = Append(profile_subcategories,
           [profile_id |-> areq.id, subcategory_id |-> Head(aloc.rest)])
    /\ aloc' = [aloc EXCEPT !.rest = Tail(@)]
    /\ apc' = IF Tail(aloc.rest) # <<>> THEN "upSub" ELSE "upDelLinks"
    /\ UNCHANGED <<storeVars, uploadOwn, fails, subcategories, areq, aresp, okIds, goneIds>>

\* res.json after the last store call of updateProfile.
UpdateProfileAnswer ==
    Answer([status |-> 200, success |-> TRUE, data |-> aloc.rows[1],
            message |-> "Profile updated successfully"])

\* The delete of the old links skipped: the new links are added to them.
UpdateProfileLinksKept ==
    /\ apc = "upDelLinks"
    /\ UNCHANGED social_links
    /\ LET links == SocialLinksOf(areq.body) IN
         IF links # <<>>
         THEN /\ aloc' = [aloc EXCEPT !.rest = links]
              /\ apc' = "upLink"
              /\ UNCHANGED aresp
         ELSE /\ UpdateProfileAnswer
              /\ UNCHANGED aloc
    /\ UNCHANGED <<categories, profiles, tags, profile_tags, nextId, uploadOwn, fails,
                   subcategories, profile_subcategories, areq, okIds, goneIds>>

\* DELETE FROM social_links WHERE profile_id = $1
UpdateProfileDelLinks ==
    /\ apc = "upDelLinks"
    /\ social_links' = SelectSeq(social_links, LAMBDA l : l.profile_id # areq.id)
    /\ LET links == SocialLinksOf(areq.body) IN
         IF links # <<>>
         THEN /\ aloc' = [aloc EXCEPT !.rest = links]
              /\ apc' = "upLink"
              /\ UNCHANGED aresp
         ELSE /\ UpdateProfileAnswer
              /\ UNCHANGED aloc
    /\ UNCHANGED <<categories, profiles, tags, profile_tags, nextId, uploadOwn, fails,
                   subcategories, profile_subcategories, areq, okIds, goneIds>>

\* INSERT INTO social_links (profile_id, platform, url) VALUES ($1, $2, $3),
\* for every link of the list.
UpdateProfileLink ==
    /\ apc = "upLink"
    /\ social_links' = Append(social_links,
           [profile_id |-> areq.id, platform |-> Head(aloc.rest).platform,
            url |-> Head(aloc.rest).url])
    /\ aloc' = [aloc EXCEPT !.rest = Tail(@)]
    /\ IF Tail(aloc.rest) # <<>>
       THEN UNCHANGED <<apc, aresp>>
       ELSE UpdateProfileAnswer
    /\ UNCHANGED <<categories, profiles, tags, profile_tags, nextId, uploadOwn, fails,
                   subcategories, profile_subcategories, areq, okIds, goneIds>>

\* The pending store call of updateProfile rejects; the catch answers 500
\* with the error's message.
UpdateProfileFails(msg) ==
    /\ apc \in UpdatePcs
    /\ fails < MaxFails
    /\ fails' = fails + 1
    /\ Answer([status |-> 500, success |-> FALSE, message |-> "Error updating profile",
               error |-> msg])
    /\ UNCHANGED <<storeVars, uploadOwn, subcategories, profile_subcategories,
                   areq, aloc, okIds, goneIds>>

\* The deleteProfile requests.
DeleteProfileRequests == {r \in AdminRequests : r.op = "deleteProfile"}

\* A request reaches deleteProfile when no import is being served.
DeleteProfileArrive(r) ==
    /\ \A p \in Procs : pc[p] = "idle"
    /\ AdminArrive(r)

\* An import arrives while table profiles has never held a row and no other
\* request is being served: imports fill the store, and the requests on the
\* profiles follow.
FillingArrive(p, hasFile) ==
    /\ apc = "idle"
    /\ nextId.profiles = 1
    /\ Arrive(p, hasFile)

\* Imports, updateProfile and deleteProfile, one request after another.
ProfileNext ==
    \/ \E p \in Procs, hasFile \in BOOLEAN : FillingArrive(p, hasFile)
    \/ \E p \in Procs : Step(p)
    \/ \E p \in Procs : Close(p)
    \/ \E r \in UpdateRequests : UpdateProfileArrive(r)
    \/ UpdateProfileRow
    \/ UpdateProfileDelSubs
    \/ UpdateProfileSub
    \/ UpdateProfileDelLinks
    \/ UpdateProfileLink
    \/ \E msg \in ErrMsgs : UpdateProfileFails(msg)
    \/ \E r \in DeleteProfileRequests : DeleteProfileArrive(r)
    \/ DeleteProfileSubs
    \/ DeleteProfileLinks
    \/ DeleteProfileTags
    \/ DeleteProfileRow
    \/ \E msg \in ErrMsgs : AdminQueryFails(msg)
    \/ AdminClose

ProfileSpec == Init /\ [][ProfileNext]_vars


\* ---------------------------------------------------------------- claims

\* The five tables of the store.
StoreTables == <<categories, profiles, social_links, tags, profile_tags>>

\* A row whose name or category is missing or empty, said on the row itself.
MissingRequired(row) ==
    \/ "name" \notin DOMAIN row
    \/ row["name"] = <<>>
    \/ "category" \notin DOMAIN row
    \/ row["category"] = <<>>

\* The request has been answered with the 200 summary.
Answered200(p) ==
    /\ pc[p] = "done"
    /\ Len(responses[p]) = 1
    /\ responses[p][1].status = 200

\* What a step of request p does to a row that misses a required field: the row
\* is left at once, with one more errors entry of the given text, one more
\* error counted, no store call issued and the five tables as they were.
RejectedUntouched(p, text) ==
    ( /\ pc[p] = "loop"
      /\ i[p] < Len(results[p])
      /\ MissingRequired(results[p][i[p] + 1])
      /\ (pc'[p] # pc[p] \/ i'[p] # i[p]) )
    => /\ pc'[p] = "loop"
       /\ i'[p] = i[p] + 1
       /\ errors'[p] = Append(errors[p], [row |-> i[p] + 2, error |-> text])
       /\ errorCount'[p] = errorCount[p] + 1
       /\ successCount'[p] = successCount[p]
       /\ calls'[p] = calls[p]
       /\ StoreTables' = StoreTables

\* C1 (as amended): a row whose name or category is missing or empty is rejected
\* with an errors entry whose text is "Missing required fields (name, category)",
\* and processing it issues no store call and leaves categories, profiles,
\* social links, tags and profile-tag links as they were.
C1_MissingRowRejected ==
    [][\A p \in Procs :
         RejectedUntouched(p, "Missing required fields (name, category)")]_vars

\* C1 as stated: the same, with the error text "Missing required fields".
C1_AsStated ==
    [][\A p \in Procs : RejectedUntouched(p, "Missing required fields")]_vars

\* C1 witness: a first row without a name column has been rejected, no store
\* call issued.
C1_Witness ==
    \E p \in Procs :
       /\ pc[p] = "loop"
       /\ i[p] = 1
       /\ "name" \notin DOMAIN results[p][1]
       /\ errors[p] = <<[row |-> 2, error |-> "Missing required fields (name, category)"]>>
       /\ calls[p] = 0

\* The 1-based positions of the rows of the batch that miss a required field.
InvalidPositions(p) == {k \in 1..Len(results[p]) : MissingRequired(results[p][k])}

\* C2: a batch of N rows in which exactly the k-th row is invalid and no store
\* call of the others fails is answered with successCount = N-1, errorCount = 1
\* and one errors entry, whose row field is k+1.
C2_OneInvalidRow ==
    \A p \in Procs :
       ( /\ Answered200(p)
         /\ failLog[p] = <<>>
         /\ Cardinality(InvalidPositions(p)) = 1 )
       => LET k == CHOOSE k \in InvalidPositions(p) : TRUE
              data == responses[p][1].data
          IN /\ data.successCount = Len(results[p]) - 1
             /\ data.errorCount = 1
             /\ "errors" \in DOMAIN data
             /\ Len(data.errors) = 1
             /\ data.errors[1].row = k + 1

\* C2 witness: a batch of two rows, the second invalid, answered.
C2_Witness ==
    \E p \in Procs :
       /\ Answered200(p)
       /\ failLog[p] = <<>>
       /\ Len(results[p]) = 2
       /\ InvalidPositions(p) = {2}
       /\ responses[p][1].data.successCount = 1

\* The rows (0-based) of request p one of whose store calls failed.
FailedRows(p) == {failLog[p][j].row : j \in DOMAIN failLog[p]}

\* The message of the store call that failed in row k (0-based) of request p.
FailMsg(p, k) ==
    LET j == CHOOSE j \in DOMAIN failLog[p] : failLog[p][j].row = k IN failLog[p][j].msg

\* The errors list after the first n rows, each row deciding its own entry:
\* the validation entry, the entry of its failed store call, or none.
RECURSIVE ExpectedErrors(_, _)
ExpectedErrors(p, n) ==
    IF n = 0 THEN <<>>
    ELSE LET prev == ExpectedErrors(p, n - 1) IN
         IF MissingRequired(results[p][n])
         THEN Append(prev, [row |-> n + 1,
                            error |-> "Missing required fields (name, category)"])
         ELSE IF n - 1 \in FailedRows(p)
         THEN Append(prev, [row |-> n + 1, error |-> FailMsg(p, n - 1)])
         ELSE prev

\* C3: row-level isolation.  A store call that fails in row i adds exactly one
\* {row, error} entry for that row and one to errorCount, the rows after it are
\* still processed, and what is recorded for every row depends on that row
\* alone; the summary is sent only when every row has been processed.
C3_RowIsolation ==
    \A p \in Procs :
       /\ pc[p] \in ProcessingPcs \/ Answered200(p)
          => /\ Len(failLog[p]) = Cardinality(FailedRows(p))
             /\ errors[p] = ExpectedErrors(p, i[p])
             /\ errorCount[p] = Len(errors[p])
             /\ successCount[p] + errorCount[p] = i[p]
             /\ i[p] <= Len(results[p])
       /\ Answered200(p) => i[p] = Len(results[p])

\* C3 witness: a store call of the first row failed and the second row was
\* imported after it.
C3_Witness ==
    \E p \in Procs :
       /\ Answered200(p)
       /\ Len(results[p]) = 2
       /\ FailedRows(p) = {0}
       /\ successCount[p] = 1
       /\ errorCount[p] = 1

\* The pc values of a row whose profile has been inserted.
AfterProfilePcs == {"socialInsert", "tagSelect", "tagInsert", "tagLink", "rowOk"}

\* The ids of the rows of a categories table whose name equals `name` up to case.
IdsNamed(table, name) == {c.id : c \in {d \in table : Lower(d.name) = Lower(name)}}

\* The profile row with the given id.
ProfileOf(id) == CHOOSE pr \in profiles : pr.id = id

\* C4: when the row's category names, up to letter case, a category that
\* existed when the row began (from an earlier import or an earlier row of the
\* batch), no category insert is issued, the only row the categories table may
\* gain is the row's own subcategory, and the resolved id and the category_id of
\* the inserted profile are the id of an existing row of that name.
C4_CategoryReused ==
    \A p \in Procs :
       pc[p] \in StorePcs \cup {"rowOk"} =>
          LET old == IdsNamed(catsBefore[p], results[p][i[p] + 1]["category"]) IN
          old # {} =>
             /\ pc[p] # "catInsert"
             /\ \A c \in categories \ catsBefore[p] :
                   c.id = subcategoryId[p] /\ c.parent_id # NoId
             /\ pc[p] # "catSelect" => categoryId[p] \in old
             /\ pc[p] \in AfterProfilePcs =>
                   /\ \E pr \in profiles : pr.id = profileId[p]
                   /\ ProfileOf(profileId[p]).category_id \in old

\* C4 witness: the second row of a batch, category "m", was imported into the
\* category "M" that the first row of the same batch created.
C4_Witness ==
    \E p \in Procs :
       /\ pc[p] = "rowOk"
       /\ i[p] = 1
       /\ snap[p].categories = {}
       /\ results[p][1]["category"] = <<"M">>
       /\ results[p][2]["category"] = <<"m">>
       /\ \E c \in categories :
             /\ c.name = <<"M">>
             /\ ProfileOf(profileId[p]).category_id = c.id
       /\ Cardinality({c \in categories : c.parent_id = NoId}) = 1

\* The rows of a table (a sequence) that reference profile id.
RowsOf(table, id) == SelectSeq(table, LAMBDA l : l.profile_id = id)

\* The tag rows whose name equals `name` up to case.
TagsNamed(name) == {g \in tags : Lower(g.name) = Lower(name)}

\* A tag name as the importer uses it: not empty, no comma, no blank at
\* either end.
Normalized(name) ==
    /\ name # <<>>
    /\ \A k \in DOMAIN name : name[k] # ","
    /\ name[1] # " "
    /\ name[Len(name)] # " "

\* C5: when a row has been imported, the tag names it used are trimmed and not
\* empty (" M, m ,,P" gives M, m, P), every name resolves to exactly one Tag
\* row, names equal up to case to the same one, and the profile is linked to
\* exactly those tags, each once: the second link of a duplicate name adds no
\* row and is no row error.
C5_TagsNormalizedLinkedOnce ==
    \A p \in Procs :
       pc[p] = "rowOk" =>
          LET row == results[p][i[p] + 1]
              links == RowsOf(profile_tags, profileId[p])
          IN /\ \A k \in DOMAIN tagNames[p] : Normalized(tagNames[p][k])
             /\ ("tags" \in DOMAIN row
                   /\ row["tags"] = <<" ", "M", ",", " ", "m", " ", ",", ",", "P">>)
                => tagNames[p] = << <<"M">>, <<"m">>, <<"P">> >>
             /\ ("tags" \notin DOMAIN row) => tagNames[p] = <<>>
             /\ \A k \in DOMAIN tagNames[p] :
                   Cardinality(TagsNamed(tagNames[p][k])) = 1
             /\ {links[j].tag_id : j \in DOMAIN links}
                   = UNION {{g.id : g \in TagsNamed(tagNames[p][k])} : k \in DOMAIN tagNames[p]}
             /\ \A j1, j2 \in DOMAIN links : links[j1] = links[j2] => j1 = j2
             /\ i[p] \notin FailedRows(p)

\* C5 witness: the row with tags " M, m ,,P" was imported: two Tag rows, two
\* links, after three link inserts.
C5_Witness ==
    \E p \in Procs :
       /\ pc[p] = "rowOk"
       /\ tagNames[p] = << <<"M">>, <<"m">>, <<"P">> >>
       /\ tagIdx[p] = 4
       /\ Cardinality(tags) = 2
       /\ Len(RowsOf(profile_tags, profileId[p])) = 2

\* The number of rows of a sequence of social links with the given platform.
CountPlatform(links, pf) == Cardinality({j \in DOMAIN links : links[j].platform = pf})

\* C6: when a row has been imported, the social links of its profile are one
\* row for each of the seven platforms whose column is present and not empty,
\* with the column's text as url, and no other row.
C6_SocialLinksExact ==
    \A p \in Procs :
       pc[p] = "rowOk" =>
          LET row == results[p][i[p] + 1]
              links == RowsOf(social_links, profileId[p])
          IN /\ \A pf \in {"youtube", "twitter", "linkedin", "instagram",
                           "website", "tiktok", "facebook"} :
                   CountPlatform(links, pf)
                     = IF pf \in DOMAIN row /\ row[pf] # <<>> THEN 1 ELSE 0
             /\ \A j \in DOMAIN links :
                   /\ links[j].platform \in DOMAIN row
                   /\ links[j].url = row[links[j].platform]

\* C6 witness: a row with only website and youtube was imported with exactly
\* two social links.
C6_Witness ==
    \E p \in Procs :
       /\ pc[p] = "rowOk"
       /\ DOMAIN results[p][i[p] + 1] \cap
             {"youtube", "twitter", "linkedin", "instagram", "website", "tiktok", "facebook"}
            = {"website", "youtube"}
       /\ Len(RowsOf(social_links, profileId[p])) = 2

\* C7: when the parser has signalled an error, the request is over with one
\* response, 500 with success = false and the error text, and profiles,
\* categories and tags (and the link tables) are as they were when the request
\* arrived, whatever rows the parser had delivered.
C7_ParseErrorAborts ==
    \A p \in Procs :
       stream[p] = "errored" =>
          /\ pc[p] = "done"
          /\ Len(responses[p]) = 1
          /\ responses[p][1].status = 500
          /\ responses[p][1].success = FALSE
          /\ responses[p][1].error \in ErrMsgs
          /\ calls[p] = 0
          /\ profiles = snap[p].profiles
          /\ categories = snap[p].categories
          /\ tags = snap[p].tags
          /\ social_links = snap[p].social_links
          /\ profile_tags = snap[p].profile_tags

\* C7 witness: the parser failed after it had delivered a valid row.
C7_Witness ==
    \E p \in Procs :
       /\ stream[p] = "errored"
       /\ Len(results[p]) >= 1
       /\ ~MissingRequired(results[p][1])
       /\ responses[p][1].status = 500

\* C8: a request with a file attached never ends with its temporary file still
\* in temporary storage, and whenever the file of a request is in temporary
\* storage it is eventually deleted (at every time there is a later time at
\* which it is not there), on the end path whatever the rows' outcomes and on
\* the error path.
C8_TempFileDeleted ==
    /\ [](\A p \in Procs : pc[p] = "done" => p \notin files)
    /\ \A p \in Procs : []<>(p \notin files)

\* C8 witness: a request whose rows all failed has been answered and its file
\* is gone.
C8_Witness ==
    \E p \in Procs :
       /\ Answered200(p)
       /\ req[p].file
       /\ Len(results[p]) = 2
       /\ errorCount[p] = 2
       /\ p \in snap[p].files
       /\ p \notin files

\* C9: a request without a file is answered 400 with success = false, and it
\* opens no parser, issues no store call, changes no table and deletes no file.
C9_NoFileRejected ==
    \A p \in Procs :
       (pc[p] # "idle" /\ ~req[p].file) =>
          /\ pc[p] \in {"received", "done"}
          /\ stream[p] = "none"
          /\ results[p] = <<>>
          /\ calls[p] = 0
          /\ StoreTables = <<snap[p].categories, snap[p].profiles, snap[p].social_links,
                             snap[p].tags, snap[p].profile_tags>>
          /\ files = snap[p].files
          /\ pc[p] = "received" => responses[p] = <<>>
          /\ pc[p] = "done" =>
                /\ Len(responses[p]) = 1
                /\ responses[p][1].status = 400
                /\ responses[p][1].success = FALSE

\* C9 witness: a request without a file has been answered 400, after an
\* earlier import has filled the store.
C9_Witness ==
    \E p \in Procs :
       /\ pc[p] = "done"
       /\ ~req[p].file
       /\ responses[p][1].status = 400
       /\ profiles # {}

\* C10: every profile references an existing row of categories, and a profile
\* with a subcategory references a row whose parent_id is the profile's
\* category_id.
C10_ProfileReferences ==
    \A pr \in profiles :
       /\ \E c \in categories : c.id = pr.category_id
       /\ pr.subcategory_id # NoId =>
             \E c \in categories :
                /\ c.id = pr.subcategory_id
                /\ c.parent_id = pr.category_id

\* C10 witness: after two imports the store holds two profiles, one of them
\* with a subcategory.
C10_Witness ==
    /\ \A p \in Procs : pc[p] = "idle"
    /\ Cardinality(profiles) = 2
    /\ \E pr \in profiles : pr.subcategory_id # NoId
    /\ \E pr \in profiles : pr.subcategory_id = NoId

\* ---------------------------------------------------------------- C11

\* The pairs of distinct rows of a table whose names are equal up to letter case.
CaseTwins(table) ==
    {pair \in table \X table :
        pair[1].id # pair[2].id /\ Lower(pair[1].name) = Lower(pair[2].name)}

\* C11: with imports run one after another from the empty store, no two rows
\* of table categories with the same parent_id have names equal up to letter
\* case, and no two rows of table tags have names equal up to letter case.
C11_NoCaseDuplicates ==
    /\ \A pair \in CaseTwins(categories) : pair[1].parent_id # pair[2].parent_id
    /\ CaseTwins(tags) = {}

\* Two rows were imported whose category and tag names differ in case only,
\* and the store holds a top-level category, a subcategory and two tags.
C11_Witness ==
    /\ \A p \in Procs : pc[p] = "idle"
    /\ Cardinality(profiles) = 2
    /\ \E a, b \in profiles : a.id # b.id /\ a.category_id = b.category_id
    /\ \E c \in categories : c.parent_id # NoId
    /\ \E g, h \in tags : g.name = <<"M">> /\ h.name = <<"P">>
    /\ Len(profile_tags) = 3

\* ---------------------------------------------------------------- C12

\* The pairs of rows with one parent_id and one name up to letter case.
ScopeTwins == {pair \in CaseTwins(categories) : pair[1].parent_id = pair[2].parent_id}

\* The import in slot p is about to return from a store call that did not fail.
Returns(p) == pc[p] \in StorePcs /\ calls'[p] = calls[p] + 1 /\ errorCount'[p] = errorCount[p]

\* C12: with two imports overlapping, the insert that follows a missed lookup
\* is made whatever the table holds by then: it adds a categories (tags) row
\* also when another import has inserted that name meanwhile, it reports
\* nothing, and no step of an import removes or merges rows of one
\* normalized name.
C12_CreateRaceUnhandled ==
    [][ /\ \A pair \in ScopeTwins : pair \in ScopeTwins'
        /\ \A pair \in CaseTwins(tags) : pair \in CaseTwins(tags)'
        /\ \A p \in Procs :
             /\ (pc[p] = "catInsert" /\ Returns(p)) =>
                    /\ Cardinality(categories') = Cardinality(categories) + 1
                    /\ errors'[p] = errors[p]
             /\ (pc[p] = "tagInsert" /\ Returns(p)) =>
                    /\ Cardinality(tags') = Cardinality(tags) + 1
                    /\ errors'[p] = errors[p]
      ]_vars

\* Two overlapping imports whose first rows name one category up to case, absent
\* when they arrived: both lookups missed, both inserts ran, and two top-level
\* rows of that name exist.
C12_Witness ==
    \E p, q \in Procs :
        /\ p # q
        /\ pc[p] \in ProcessingPcs /\ pc[q] \in ProcessingPcs
        /\ i[p] = 0 /\ i[q] = 0
        /\ snap[p].categories = {} /\ snap[q].categories = {}
        /\ categoryId[p] # NoId /\ categoryId[q] # NoId
        /\ categoryId[p] # categoryId[q]
        /\ Lower(Row(p)["category"]) = Lower(Row(q)["category"])
        /\ \E pair \in ScopeTwins :
             /\ pair[1].id = categoryId[p] /\ pair[2].id = categoryId[q]
             /\ pair[1].parent_id = NoId

\* ---------------------------------------------------------------- C13

\* Sequence s is an initial part of sequence t.
IsPrefix(s, t) == Len(s) <= Len(t) /\ \A k \in DOMAIN s : s[k] = t[k]

\* C13: no step of an import undoes a write.  The step at which a store call
\* of a row fails leaves the five tables as the row's earlier calls made them
\* and counts the row as one error; every step keeps every row the tables hold.
C13_NoRollback ==
    [][ /\ categories \subseteq categories'
        /\ profiles \subseteq profiles'
        /\ tags \subseteq tags'
        /\ IsPrefix(social_links, social_links')
        /\ IsPrefix(profile_tags, profile_tags')
        /\ \A p \in Procs :
             (pc[p] \in StorePcs /\ fails' = fails + 1 /\ calls'[p] = calls[p] + 1) =>
                 /\ StoreTables' = StoreTables
                 /\ errorCount'[p] = errorCount[p] + 1
                 /\ successCount'[p] = successCount[p]
                 /\ Len(errors'[p]) = Len(errors[p]) + 1
      ]_vars

\* The first row of an import into the empty store created its category, a
\* later call of the row failed, and the row is counted as an error: the
\* category is in the store and no profile refers to it.
C13_Witness ==
    \E p \in Procs :
        /\ pc[p] = "loop"
        /\ i[p] = 1
        /\ errorCount[p] = 1
        /\ successCount[p] = 0
        /\ Len(failLog[p]) = 1
        /\ snap[p].categories = {}
        /\ Cardinality(categories) = 1
        /\ profiles = {}

\* ---------------------------------------------------------------- C14

\* The columns of a profile that an import fills with the row's value or null.
NullableCols == {"image_url", "insight", "notes", "notes_url", "location"}

\* Column col of the row is absent or empty.
Blank(row, col) == col \notin DOMAIN row \/ row[col] = <<>>

\* C14: the profile a row inserted has language "English" when the row's
\* language is absent or empty and the row's value otherwise, status
\* "published" when the row's status is absent or empty and the row's value
\* otherwise, and in image_url, insight, notes, notes_url and location null
\* when the row's column is absent or empty and the row's value otherwise.
C14_ProfileDefaults ==
    \A p \in Procs :
        pc[p] \in AfterProfilePcs =>
            LET pr == ProfileOf(profileId[p])
                row == Row(p)
            IN /\ pr.language = IF Blank(row, "language") THEN English ELSE row["language"]
               /\ pr.status = IF Blank(row, "status") THEN Published ELSE row["status"]
               /\ \A col \in NullableCols :
                    pr[col] = IF Blank(row, col) THEN Null ELSE row[col]

\* The second row of an import, with an empty status, empty notes and a
\* location, has gone through; the first row gave an explicit language.
C14_Witness ==
    \E p \in Procs :
        /\ pc[p] = "rowOk"
        /\ i[p] = 1
        /\ successCount[p] = 1
        /\ "status" \in DOMAIN Row(p) /\ Row(p)["status"] = <<>>
        /\ \E pr \in profiles : pr.language = <<"f">> /\ pr.status = Published
        /\ \E pr \in profiles :
             /\ pr.id = profileId[p]
             /\ pr.language = English /\ pr.status = Published
             /\ pr.notes = Null /\ pr.location = <<"l">> /\ pr.image_url = Null

\* ---------------------------------------------------------------- C15

\* The store call of request p that is sent and has not returned or failed:
\* the handler is suspended at that await, and pc[p] names it.
Pending(p) == pc[p] \in StorePcs

\* In this step a store call of request p returns or fails.
Settles(p) == calls'[p] = calls[p] + 1

\* C15: an import has at most one store call pending and works through its
\* rows in file order.  Only the pending call returns or fails; while it is
\* pending the import sends no other call and stays on its row; the first
\* call of a row is sent from the head of the loop, for the row at index i,
\* with no call pending; a call that returns is followed by the next call
\* of the same row or by the row's end; and the row index moves forward by
\* one, to a state with no call pending.
C15_OneCallAtATime ==
    [][ \A p \in Procs :
          /\ Settles(p) => Pending(p)
          /\ (Pending(p) /\ ~Settles(p)) => (pc'[p] = pc[p] /\ i'[p] = i[p])
          /\ (~Pending(p) /\ Pending(p)') =>
                 /\ pc[p] = "loop" /\ pc'[p] = "catSelect"
                 /\ i'[p] = i[p] /\ i[p] < Len(results[p])
          /\ Settles(p) =>
                 \/ pc'[p] \in StorePcs \cup {"rowOk"} /\ i'[p] = i[p]
                 \/ pc'[p] = "loop" /\ i'[p] = i[p] + 1
          /\ i'[p] # i[p] =>
                 \/ i'[p] = i[p] + 1 /\ pc'[p] = "loop" /\ pc[p] \in ProcessingPcs
                 \/ i'[p] = 0 /\ pc'[p] \in {"loop", "idle"} /\ pc[p] \in {"parsing", "done"}
      ]_vars

\* The second row of an import has a store call pending, after the four
\* calls or more of the first row have all returned.
C15_Witness ==
    \E p \in Procs :
        /\ Pending(p)
        /\ i[p] = 1
        /\ successCount[p] = 1
        /\ calls[p] >= 4
        /\ pc[p] = "tagLink"

\* ---------------------------------------------------------------- C16

\* The import of request p is over with the summary: the parser ended, every
\* parsed row was counted as a success or an error, and the one response is
\* the 200 that carries the counts.
EndedWithSummary(p) ==
    /\ stream[p] = "ended"
    /\ i[p] = Len(results[p])
    /\ successCount[p] + errorCount[p] = Len(results[p])
    /\ Len(responses[p]) = 1
    /\ responses[p][1].status = 200
    /\ responses[p][1].data.successCount = successCount[p]
    /\ responses[p][1].data.errorCount = errorCount[p]
    /\ Len(errors[p]) = errorCount[p]

\* The import of request p is over with the parser's failure: no store call
\* was made, and the one response is the 500 of the 'error' listener.
EndedWithParseError(p) ==
    /\ stream[p] = "errored"
    /\ calls[p] = 0
    /\ Len(responses[p]) = 1
    /\ responses[p][1].status = 500
    /\ responses[p][1].message = "Error parsing CSV file"

\* C16: when every ready handler step is eventually run (the parser of a
\* finite file ends or fails, each store call returns or fails), an import
\* that has started is eventually over, and an import with a file is over in
\* one of two ways only: with the summary after every parsed row was
\* processed, or with the parser's single top-level error.
C16_ImportTerminates ==
    /\ [](\A p \in Procs :
            (pc[p] = "done" /\ req[p].file) =>
                (EndedWithSummary(p) \/ EndedWithParseError(p)))
    /\ \A p \in Procs : []<>(pc[p] \in {"idle", "done"})

\* An import of two rows is over with the summary, one row imported and one
\* failed at a store call.
C16_Witness ==
    \E p \in Procs :
        /\ pc[p] = "done"
        /\ req[p].file
        /\ EndedWithSummary(p)
        /\ Len(results[p]) = 2
        /\ successCount[p] = 1
        /\ Len(failLog[p]) = 1

\* ---------------------------------------------------------------- C17

\* The entries of errors that report a failed store call of row k (from 0)
\* with message msg.
Reports(errs, k, msg) == {n \in DOMAIN errs : errs[n] = [row |-> k + 2, error |-> msg]}

\* C17: every store call that failed during the row loop has an entry of
\* errors with the row's number and the call's own message, and the summary
\* carries these entries; a row whose calls have not failed has no entry, the
\* row whose tag link met an existing (profile_id, tag_id) pair included.
C17_StoreErrorsSurface ==
    \A p \in Procs :
        /\ \A j \in DOMAIN failLog[p] :
             Reports(errors[p], failLog[p][j].row, failLog[p][j].msg) # {}
        /\ \A n \in DOMAIN errors[p] :
             \/ errors[p][n].row - 2 \in FailedRows(p)
             \/ /\ errors[p][n].row - 1 \in InvalidPositions(p)
                /\ errors[p][n].error = "Missing required fields (name, category)"
        /\ (pc[p] \in StorePcs \cup {"rowOk"}) =>
               \A n \in DOMAIN errors[p] : errors[p][n].row # i[p] + 2
        /\ (pc[p] = "done" /\ stream[p] = "ended" /\ failLog[p] # <<>>) =>
               /\ "errors" \in DOMAIN responses[p][1].data
               /\ \A j \in DOMAIN failLog[p] :
                    Reports(responses[p][1].data.errors,
                            failLog[p][j].row, failLog[p][j].msg) # {}

\* An import of two rows is answered: the first row named one tag twice up to
\* case, its second link met the first and the row went through; a store
\* call of the second row failed and the summary carries its message.
C17_Witness ==
    \E p \in Procs :
        /\ pc[p] = "done"
        /\ stream[p] = "ended"
        /\ Len(results[p]) = 2
        /\ successCount[p] = 1
        /\ FailedRows(p) = {1}
        /\ Len(TagNames(results[p][1])) = 3
        /\ Len(RowsOf(profile_tags, 1)) = 2
        /\ Len(responses[p][1].data.errors) = 1
        /\ responses[p][1].data.errors[1].error \in ErrMsgs

\* ---------------------------------------------------------------- C20

\* The rows the table held when the row began that have the row's
\* subcategory name up to case under the given parent.
PriorSubs(p, parent) ==
    {c \in catsBefore[p] :
        Lower(c.name) = Lower(Row(p)["subcategory"]) /\ c.parent_id = parent}

\* C20: once a row with a subcategory has its subcategory resolved, the
\* resolved row has the row's subcategory name up to case and parent_id equal
\* to the row's resolved category id; it is a row the table held before the
\* row began when one with that name and that parent_id existed, and
\* otherwise a new row with the name as written.
C20_SubcategoryScoped ==
    \A p \in Procs :
        (pc[p] \in {"profileInsert"} \cup AfterProfilePcs /\ subcategoryId[p] # NoId) =>
            \E c \in categories :
                /\ c.id = subcategoryId[p]
                /\ Lower(c.name) = Lower(Row(p)["subcategory"])
                /\ c.parent_id = categoryId[p]
                /\ categoryId[p] # NoId
                /\ IF PriorSubs(p, categoryId[p]) # {}
                   THEN c \in PriorSubs(p, categoryId[p])
                   ELSE c \notin catsBefore[p] /\ c.name = Row(p)["subcategory"]

\* Two rows gave one subcategory name up to case under two categories: the
\* second row's subcategory is a new row, beside the first row's.
C20_Witness ==
    \E p \in Procs :
        /\ pc[p] = "profileInsert"
        /\ i[p] = 1
        /\ subcategoryId[p] # NoId
        /\ \E c, e \in categories :
             /\ c.id = subcategoryId[p] /\ e.id # c.id
             /\ e \in catsBefore[p] /\ c \notin catsBefore[p]
             /\ Lower(c.name) = Lower(e.name)
             /\ e.parent_id # NoId /\ c.parent_id # NoId
             /\ e.parent_id # c.parent_id

\* ---------------------------------------------------------------- C18

\* The CRUD request of handler op has been answered 200.
AdminOk(op) ==
    /\ apc = "adone"
    /\ areq.op = op
    /\ Len(aresp) = 1
    /\ aresp[1].status = 200

\* C18: with the CRUD requests served one after another, every answer of
\* getCategories lists the id of each category that createCategory answered
\* 200 for and deleteCategory has not answered 200 for since, and lists no id
\* that deleteCategory answered 200 for.
C18_CategoryCreateListDelete ==
    AdminOk("getCategories") =>
        LET listed == {e.id : e \in aresp[1].data}
        IN /\ (okIds.categories \ goneIds.categories) \subseteq listed
           /\ listed \cap goneIds.categories = {}

\* Two categories were created, the first was deleted, and getCategories
\* has answered with the second alone.
C18_Witness ==
    /\ AdminOk("getCategories")
    /\ okIds.categories = {1, 2}
    /\ goneIds.categories = {1}
    /\ {e.id : e \in aresp[1].data} = {2}

\* ---------------------------------------------------------------- C19

\* The ids on the page getAllProfiles has answered with.
ListedProfiles == {aresp[1].data.profiles[k].id : k \in DOMAIN aresp[1].data.profiles}

\* C19: with the CRUD requests served one after another, every answer of
\* getAllProfiles is free of the ids deleteProfile answered 200 for, whatever
\* the page, the limit and the filter; and the answer to a request for the
\* first page without a filter holds the profile createProfile answered 200
\* for when no profile in the table was inserted after it.
C19_ProfileCreateListDelete ==
    AdminOk("getAllProfiles") =>
        /\ ListedProfiles \cap goneIds.profiles = {}
        /\ \A x \in okIds.profiles \ goneIds.profiles :
             (/\ "page" \notin DOMAIN areq.query
              /\ "status" \notin DOMAIN areq.query
              /\ \A pr \in profiles : pr.id <= x) => x \in ListedProfiles

\* Three profiles were created and the last one deleted; the first page of
\* one row holds the second profile and not the first.
C19_Witness ==
    /\ AdminOk("getAllProfiles")
    /\ areq.query = [limit |-> <<"1">>]
    /\ okIds.profiles = {1, 2, 3}
    /\ goneIds.profiles = {3}
    /\ {pr.id : pr \in profiles} = {1, 2}
    /\ ListedProfiles = {2}

\* ---------------------------------------------------------------- C21

\* The rows of table categories whose parent is itself a subcategory.
ThirdLevel == {c \in categories :
                  \E d \in categories : d.id = c.parent_id /\ d.parent_id # NoId}

\* C21: after any sequence of imports, every categories row with a non-null
\* parent_id has a parent whose own parent_id is null (the hierarchy stays at
\* depth 2).
C21_AsStated ==
    \A c \in categories :
       c.parent_id # NoId =>
          \E d \in categories : d.id = c.parent_id /\ d.parent_id = NoId

\* C21 witness: the second row's category "P" was resolved to the subcategory
\* "P" that the first row created, and its subcategory "p" was hung under it.
C21_Witness ==
    \E p \in Procs :
       /\ pc[p] = "profileInsert"
       /\ i[p] = 1
       /\ results[p][2]["category"] = <<"P">>
       /\ \E d \in categories : d.id = categoryId[p] /\ d.parent_id # NoId
       /\ \E c \in ThirdLevel : c.id = subcategoryId[p] /\ c.parent_id = categoryId[p]

\* ---------------------------------------------------------------- C22

\* The ids of the rows of a tags table.
TagIds(table) == {g.id : g \in table}

\* C22: every tags row an import creates has type "contextual", and no step of
\* an import changes or removes a tags row that exists, whatever its type: a
\* tag reclassified to "universal" keeps that type when a later import resolves
\* its name.
C22_TagTypeKept ==
    [][(pc' # pc \/ calls' # calls) =>
          /\ \A g \in tags : g \in tags'
          /\ \A g \in tags' : g.id \notin TagIds(tags) => g.type = Contextual]_vars

\* C22 witness: the tag "P" was reclassified to "universal" before the import
\* arrived, the import's row names it as "p" and resolved it, and the tag is
\* still "universal".
C22_Witness ==
    \E p \in Procs :
       /\ pc[p] = "tagLink"
       /\ tagNames[p][tagIdx[p]] = <<"p">>
       /\ \E g \in tags :
             /\ g.id = tagId[p]
             /\ g.name = <<"P">>
             /\ g.type = Universal
             /\ g \in snap[p].tags

\* ---------------------------------------------------------------- C23

\* The errors list of a summary: the key is left out when the list is empty.
ErrorsOf(data) == IF "errors" \in DOMAIN data THEN data.errors ELSE <<>>

\* The 0-based indexes of the rows that the errors list names.
ErrorRows(errs) == {errs[j].row - 2 : j \in DOMAIN errs}

\* C23: in every summary, successCount + errorCount is the number of parsed
\* rows, the errors list has errorCount entries, every row is counted once, as
\* an error when it is named by the errors list and as a success otherwise, and
\* the row fields of the errors entries are strictly increasing (so distinct),
\* each the 0-based index of a parsed row plus 2.
C23_SummaryCounts ==
    \A p \in Procs :
       Answered200(p) =>
          LET data == responses[p][1].data
              errs == ErrorsOf(data)
              n == Len(results[p])
          IN /\ data.successCount + data.errorCount = n
             /\ Len(errs) = data.errorCount
             /\ \A j, k \in DOMAIN errs : j < k => errs[j].row < errs[k].row
             /\ ErrorRows(errs) \subseteq 0..(n - 1)
             /\ data.errorCount = Cardinality(ErrorRows(errs))
             /\ data.successCount = Cardinality((0..(n - 1)) \ ErrorRows(errs))
             /\ \A k \in 0..(n - 1) :
                   k \in ErrorRows(errs) <=>
                      (MissingRequired(results[p][k + 1]) \/ k \in FailedRows(p))

\* C23 witness: a summary for two rows, the first rejected by the validation
\* and the second by a failed store call: no success, two errors, rows 2 and 3.
C23_Witness ==
    \E p \in Procs :
       /\ Answered200(p)
       /\ Len(results[p]) = 2
       /\ MissingRequired(results[p][1])
       /\ FailedRows(p) = {1}
       /\ responses[p][1].data.successCount = 0
       /\ responses[p][1].data.errorCount = 2
       /\ responses[p][1].data.errors[1].row = 2
       /\ responses[p][1].data.errors[2].row = 3

\* ---------------------------------------------------------------- C24

\* The one response of request p is that of the path the request took.
AnswerOfItsPath(p) ==
    LET r == responses[p][1] IN
    /\ r.status \in {200, 400, 500}
    /\ r.status = 400 <=> ~req[p].file
    /\ r.status = 500 <=> stream[p] = "errored"
    /\ r.status = 200 <=>
          (stream[p] = "ended" /\ i[p] = Len(results[p])
             /\ successCount[p] + errorCount[p] = Len(results[p]))

\* C24: every request is answered exactly once.  No request has two responses;
\* a response is sent on a request that has none and ends the handler; the
\* request that is over has one response, the 400 without a file, the 500 of
\* the parser's error, or the 200 summary with every parsed row processed; and
\* when every ready handler step is eventually run, a request that has arrived
\* is eventually answered.
C24_AnsweredOnce ==
    /\ [](\A p \in Procs :
            /\ Len(responses[p]) <= 1
            /\ pc[p] = "done" <=> Len(responses[p]) = 1
            /\ pc[p] = "done" => AnswerOfItsPath(p))
    /\ [][\A p \in Procs :
            Len(responses'[p]) > Len(responses[p]) =>
               /\ responses[p] = <<>>
               /\ pc[p] \in {"received", "parsing", "loop"}
               /\ pc'[p] = "done"
               /\ responses'[p][1].status = 200 =>
                     (pc[p] = "loop" /\ i[p] = Len(results[p]))]_vars
    /\ \A p \in Procs : []<>(pc[p] = "idle" \/ Len(responses[p]) = 1)

\* C24 witness: a request with two rows, both imported by store calls, has its
\* one response, the 200 summary.
C24_Witness ==
    \E p \in Procs :
       /\ pc[p] = "done"
       /\ responses[p] # <<>>
       /\ responses[p][1].status = 200
       /\ Len(results[p]) = 2
       /\ i[p] = 2
       /\ successCount[p] = 2
       /\ calls[p] >= 4

\* ---------------------------------------------------------------- C25

\* C25: on the path of a parse that ended, the temporary file of the request is
\* gone before the first store call: it is not in temporary storage in any
\* state in which a row is being processed or a store call has been issued,
\* whatever rows were parsed and whatever became of them, and the step that
\* ends the parse removes it and issues no store call.
C25_FileGoneBeforeRows ==
    /\ [](\A p \in Procs :
            (stream[p] = "ended" \/ pc[p] \in ProcessingPcs \/ calls[p] > 0) =>
               p \notin files)
    /\ [][\A p \in Procs :
            (pc[p] = "parsing" /\ pc'[p] = "loop") =>
               /\ p \in files
               /\ files' = files \ {p}
               /\ calls'[p] = 0
               /\ i'[p] = 0]_vars

\* C25 witness: the first store call of the first row is pending and not yet
\* issued, and the file that was in temporary storage is gone.
C25_Witness ==
    \E p \in Procs :
       /\ pc[p] = "catSelect"
       /\ i[p] = 0
       /\ calls[p] = 0
       /\ p \in snap[p].files
       /\ p \notin files

\* ---------------------------------------------------------------- C26

\* The CRUD handler answers with the given status in this step.
AnswersWith(status) ==
    /\ apc' = "adone"
    /\ Len(aresp') = 1
    /\ aresp'[1].status = status

\* Some profile references the category of the deleteCategory request.
Referenced == \E pr \in profiles : pr.category_id = areq.id

\* The rows of table subcategories of the category of the request.
OwnSubs == {t \in subcategories : t.category_id = areq.id}

\* The links of table profile_subcategories to a subcategory of the set.
LinksTo(subs) ==
    {k \in DOMAIN profile_subcategories :
        \E t \in subs : t.id = profile_subcategories[k].subcategory_id}

\* C26: deleteCategory answers 400 for a category that a profile references,
\* and then it has deleted nothing; when no profile references it, the links
\* to its subcategories are deleted first, then its subcategories, then the
\* categories row: a step deletes subcategories only of this category and
\* only when no link to them is left, a step deletes a categories row only
\* when no profile references it and none of its subcategories is left, and
\* the answer is then 404 when no categories row has the id and 200 when the
\* row was deleted.
C26_DeleteCategoryGuarded ==
    [][(areq.op = "deleteCategory" /\ apc # "adone") =>
          /\ (apc = "dcCount" /\ Referenced) =>
                (AnswersWith(400) \/ AnswersWith(500))
          /\ AnswersWith(400) =>
                /\ apc = "dcCount"
                /\ Referenced
          /\ apc = "dcCount" =>
                UNCHANGED <<categories, subcategories, profile_subcategories, profiles>>
          /\ profile_subcategories' # profile_subcategories =>
                /\ apc = "dcLinks"
                /\ LinksTo(OwnSubs) # {}
                /\ profile_subcategories' =
                      SelectSeq(profile_subcategories,
                                LAMBDA l : \A t \in OwnSubs : t.id # l.subcategory_id)
          /\ subcategories' # subcategories =>
                /\ apc = "dcSubs"
                /\ LinksTo(OwnSubs) = {}
                /\ subcategories' = subcategories \ OwnSubs
          /\ (apc = "dcRow" /\ ~AnswersWith(500)) =>
                /\ ~Referenced
                /\ OwnSubs = {}
                /\ categories' = {c \in categories : c.id # areq.id}
                /\ IF \E c \in categories : c.id = areq.id
                   THEN AnswersWith(200)
                   ELSE AnswersWith(404)
          /\ categories' # categories => apc = "dcRow"
          /\ UNCHANGED profiles]_vars

\* C26 witness: deleteCategory has answered 400 for a category that has a
\* subcategory, a link to it and a profile, and all of them are still there.
C26_Witness ==
    /\ apc = "adone"
    /\ areq.op = "deleteCategory"
    /\ aresp[1].status = 400
    /\ \E c \in categories : c.id = areq.id
    /\ \E t \in subcategories :
          /\ t.category_id = areq.id
          /\ \E k \in DOMAIN profile_subcategories :
                profile_subcategories[k].subcategory_id = t.id
    /\ \E pr \in profiles : pr.category_id = areq.id

\* ---------------------------------------------------------------- C27

\* C27: under any interleaving of deleteCategory with a running import, no
\* profile references a category id that deleteCategory has deleted.
C27_NoProfileOfDeletedCategory ==
    \A pr \in profiles : pr.category_id \notin goneIds.categories

\* C27 witness: an import holds the id of a category it has resolved, its
\* profile not yet inserted, and deleteCategory has passed its count of the
\* profiles of that category and stands before its delete of the row.
C27_Witness ==
    \E p \in Procs :
       /\ pc[p] = "profileInsert"
       /\ apc = "dcRow"
       /\ areq.id = categoryId[p]
       /\ \E c \in categories : c.id = categoryId[p]
       /\ ~\E pr \in profiles : pr.category_id = categoryId[p]

\* ---------------------------------------------------------------- C28

\* The three link tables of a profile.
LinkTables == <<social_links, profile_tags, profile_subcategories>>

\* The rows of a link table that reference the profile id, and the others.
RowsFor(table, id) == SelectSeq(table, LAMBDA l : l.profile_id = id)

RowsNotFor(table, id) == SelectSeq(table, LAMBDA l : l.profile_id # id)

\* No row of the three link tables references the profile id.
Unlinked(id) == \A k \in 1..3 : RowsFor(LinkTables[k], id) = <<>>

\* C28: once deleteProfile has answered 200 for a profile id, no social_links,
\* profile_tags or profile_subcategories row references that id; the profile
\* row is deleted only when the three link tables hold no row of the id; and
\* no step of deleteProfile changes a profile or a link row of another id.
C28_DeleteProfileCascade ==
    /\ [](\A id \in goneIds.profiles :
             /\ Unlinked(id)
             /\ ~\E pr \in profiles : pr.id = id)
    /\ [][(areq.op = "deleteProfile" /\ apc # "adone") =>
             /\ profiles' # profiles =>
                   /\ Unlinked(areq.id)
                   /\ AnswersWith(200)
             /\ {pr \in profiles' : pr.id # areq.id} = {pr \in profiles : pr.id # areq.id}
             /\ \A k \in 1..3 :
                   RowsNotFor(LinkTables'[k], areq.id) = RowsNotFor(LinkTables[k], areq.id)
             /\ AnswersWith(200) =>
                   /\ apc = "dpRow"
                   /\ \E pr \in profiles : pr.id = areq.id]_vars

\* C28 witness: deleteProfile has answered 200 for the second imported
\* profile, whose row created the two tags; the first profile still has its
\* tag link and the subcategory links an update gave it.
C28_Witness ==
    /\ apc = "adone"
    /\ areq.op = "deleteProfile"
    /\ aresp[1].status = 200
    /\ areq.id = 2
    /\ Cardinality(tags) = 2
    /\ \E pr \in profiles : pr.id = 1
    /\ Len(RowsFor(profile_tags, 1)) = 1
    /\ Len(RowsFor(profile_subcategories, 1)) = 2

\* ---------------------------------------------------------------- C29

\* The list a request body gives under a key, empty when the key is absent.
GivenList(body, key) == IF key \in DOMAIN body THEN body[key] ELSE <<>>

\* The social links of a profile as {platform, url} pairs, in table order.
SocialPairs(id) ==
    LET own == RowsFor(social_links, id)
    IN [k \in DOMAIN own |-> [platform |-> own[k].platform, url |-> own[k].url]]

\* The subcategory ids linked to a profile, in table order.
LinkedSubcategories(id) ==
    LET own == RowsFor(profile_subcategories, id)
    IN [k \in DOMAIN own |-> own[k].subcategory_id]

\* C29: updateProfile for an id that no profiles row has answers 404 at its
\* first store call and leaves profiles, profile_subcategories and
\* social_links as they were; when it has answered 200, the social links and
\* the subcategory links of the profile are exactly the lists of the request,
\* the old ones gone.
C29_UpdateProfileReplaces ==
    /\ []((apc = "adone" /\ areq.op = "updateProfile" /\ aresp[1].status = 200) =>
             /\ \E pr \in profiles : pr.id = areq.id
             /\ SocialPairs(areq.id) = GivenList(areq.body, "social_links")
             /\ LinkedSubcategories(areq.id) = GivenList(areq.body, "subcategory_ids"))
    /\ [][(areq.op = "updateProfile" /\ apc # "adone") =>
             /\ (apc = "upRow" /\ ~\E pr \in profiles : pr.id = areq.id) =>
                   /\ AnswersWith(404) \/ AnswersWith(500)
                   /\ UNCHANGED <<profiles, profile_subcategories, social_links>>
             /\ AnswersWith(404) =>
                   /\ apc = "upRow"
                   /\ ~\E pr \in profiles : pr.id = areq.id]_vars

\* C29 witness: updateProfile has answered 200 for the imported profile that
\* had a website and a youtube link; its links are now the two of the request
\* and its subcategory links the two ids of the request.
C29_Witness ==
    /\ apc = "adone"
    /\ areq.op = "updateProfile"
    /\ aresp[1].status = 200
    /\ Len(RowsFor(profile_tags, areq.id)) = 2
    /\ Len(SocialPairs(areq.id)) = 2
    /\ SocialPairs(areq.id)[1].platform = "tiktok"
    /\ LinkedSubcategories(areq.id) = <<2, 1>>

====
